---- MODULE Spec2Model ----
(***************************************************************************)
(* basebox: building Vagrant base boxes in a disposable VM.                *)
(*                                                                         *)
(* The model follows src/basebox/build.py (the @basebox decorator, the     *)
(* tempbox context manager, the Base image reference) and                  *)
(* src/basebox/vagrant.py (VagrantContext, VagrantBox, the connection      *)
(* manager).  External commands (vagrant, mktemp, rm) succeed or fail      *)
(* nondeterministically; a command only acts on the machine it is sent to. *)
(***************************************************************************)
EXTENDS Integers, Sequences, FiniteSets, TLC

\* ------------------------------------------------------------------ bounds
\* steps the opaque provisioning procedure may take in one build
MaxProcSteps == 3
\* depth of build-wrapped procedures calling each other
MaxNest == 1
\* calls of Base.ensure / Base.clean a client makes on a Base of its own
MaxBaseCalls == 2
\* how many times the client enters an overlay on a VagrantContext of its own
MaxClientConnects == 1
\* the largest integer handed to resolve_package_vagrantfile (codes are 0..2)
MaxCode == 3

\* ------------------------------------------------------- strings and paths
\* A reference string is a sequence of tokens: the separator characters
\* "/", ".", ":", "?", "#" are tokens of their own, every other token is a
\* run of ordinary characters.  Join gives the string itself.
RECURSIVE Join(_)
Join(p) == IF p = <<>> THEN "" ELSE Head(p) \o Join(Tail(p))

\* str.rfind on tokens, 0 when absent (Python: -1, indices from 0)
rfind(p, c) ==
    LET hits == {i \in 1..Len(p) : p[i] = c}
    IN  IF hits = {} THEN 0 ELSE CHOOSE i \in hits : \A j \in hits : j <= i

\* str.find on tokens from position `from`, 0 when absent
find(p, c, from) ==
    LET hits == {i \in from..Len(p) : p[i] = c}
    IN  IF hits = {} THEN 0 ELSE CHOOSE i \in hits : \A j \in hits : i <= j

\* os.path.splitext(p)[0]: the last dot after the last slash starts the
\* extension, unless only dots precede it in the file name
splitext0(p) ==
    LET sepIndex == rfind(p, "/")
        dotIndex == rfind(p, ".")
    IN  IF /\ dotIndex > sepIndex
           /\ \E i \in (sepIndex + 1)..(dotIndex - 1) : p[i] # "."
        THEN SubSeq(p, 1, dotIndex - 1)
        ELSE p

\* os.path.basename(p)
basename(p) == SubSeq(p, rfind(p, "/") + 1, Len(p))

\* urlparse.urlsplit(s).path: drop "scheme:", drop "//netloc", cut the
\* fragment and the query
urlsplit_path(s) ==
    LET i      == find(s, ":", 1)
        rest   == IF i = 2 /\ s[1] \notin {"/", "?", "#"}
                  THEN SubSeq(s, i + 1, Len(s)) ELSE s
        cuts(u, from) == {k \in from..Len(u) : u[k] \in {"/", "?", "#"}}
        delim(u) == IF cuts(u, 3) = {} THEN Len(u) + 1
                    ELSE CHOOSE k \in cuts(u, 3) : \A j \in cuts(u, 3) : k <= j
        url    == IF Len(rest) >= 2 /\ rest[1] = "/" /\ rest[2] = "/"
                  THEN SubSeq(rest, delim(rest), Len(rest))
                  ELSE rest
        h      == find(url, "#", 1)
        nofrag == IF h = 0 THEN url ELSE SubSeq(url, 1, h - 1)
        q      == find(nofrag, "?", 1)
    IN  IF q = 0 THEN nofrag ELSE SubSeq(nofrag, 1, q - 1)

\* '%03i' % count
Digit(d) ==
    CASE d = 0 -> "0" [] d = 1 -> "1" [] d = 2 -> "2" [] d = 3 -> "3"
      [] d = 4 -> "4" [] d = 5 -> "5" [] d = 6 -> "6" [] d = 7 -> "7"
      [] d = 8 -> "8" [] d = 9 -> "9"

RECURSIVE Digits(_)
Digits(n) == IF n < 10 THEN Digit(n) ELSE Digits(n \div 10) \o Digit(n % 10)

Format03i(n) ==
    LET s == Digits(n)
    IN  IF Len(s) >= 3 THEN s ELSE IF Len(s) = 2 THEN "0" \o s ELSE "00" \o s

\* ------------------------------------------------------------- the inputs
\* reference strings a build may be given
RefName  == <<"precise64">>
RefFile  == <<"/", "tmp", "/", "precise64", ".", "box">>
RefUrl   == <<"http", ":", "/", "/", "files", ".", "vagrantup", ".", "com",
              "/", "precise64", ".", "box">>
RefQuery == <<"http", ":", "/", "/", "mirror", "/", "boxes", "/", "lucid32",
              ".", "tar", ".", "box", "?", "v=2", "#", "top">>
Refs == {RefName, RefFile, RefUrl, RefQuery}

\* reference strings that name an existing local file
LocalFiles == {RefFile}

\* image names the registry may hold before the process starts
SeedNames == {"precise64", "precise64-001", "lucid32.tar"}

\* ------------------------------------------------------------------ state
VARIABLES
    installed,          \* the installed-image registry of the home machine
    scratch,            \* TRUE while the scratch directory exists
    vm,                 \* the disposable VM: "absent" or "running"
    env,                \* fabric's env: key -> value, Absent when not a key
    connections,        \* fabric.state.connections: host strings with a session
    uuid_cache,         \* VagrantContext._uuid[None] (class attribute)
    subject,            \* BaseboxDecorator.__subject__ (the current build)
    kwargs,             \* the keyword arguments given to @basebox(...)
    base,               \* the Base object, NoBase before one is constructed
    pc,                 \* position of the process
    exc,                \* the exception in flight, NoExc when none
    build_dir,          \* tempbox's local: Unbound or the path
    vagrant,            \* tempbox's local: UnboundBox, NoneBox, or the VagrantBox
    original_settings,  \* _VagrantConnectionManager.original_settings
    old_mode,           \* default_to_local's mode_local().oldMode, Unbound when not entered
    args,               \* wrapper's locals install_as, package_vfile, package_as
    depth,              \* nested direct calls of wrapped procedures in progress
    steps,              \* steps the procedure has taken
    base_calls,         \* client calls of Base.ensure / Base.clean so far
    builds,             \* top-level invocations so far
    outcome,            \* what the caller of the finished invocation observed
    log,                \* what happened so far: commands issued, and the wrapper's own steps
    invocations,        \* invocations of the wrapper so far, nested ones included
    was_installed,      \* box_string was in the registry when base was constructed
    snapshot,           \* the registry when base.ensure picked its name
    entered,            \* the overlays entered so far: context, its VM, uuid() and host computed
    resolving,          \* a direct call of resolve_package_vagrantfile: input and result
    packaging,          \* a direct call of VagrantContext.package: input, position, temp file
    listing,            \* a direct call of VagrantContext.status: the printed lines, the result
    builders,           \* builds in other processes sharing the registry: their Base and position
    script,             \* the caller: the wrap-time keywords, the top-level invocations it makes
    history,            \* per top-level invocation so far: what it did and with which arguments
    ip_cache            \* VagrantContext._ip: the cached (qualifier, interface, address)

vars == <<installed, scratch, vm, env, connections, uuid_cache, subject, kwargs,
          base, pc, exc, build_dir, vagrant, original_settings, old_mode, args,
          depth, steps, base_calls, builds, outcome, log, invocations,
          was_installed, snapshot, entered, resolving, packaging, listing,
          builders, script, history, ip_cache>>

\* values standing for Python's None, an unbound local, a missing dict key
None    == "None"
Unbound == "<unbound>"
Absent  == "<absent>"
NoExc   == "<none>"
NoBase  == [box_string |-> <<>>]
\* tempbox's local `vagrant` before line 180, and after `vagrant = None`
UnboundBox == [unbound |-> TRUE]
NoneBox    == [none |-> TRUE]

\* machines a command can be sent to
Home == "home"

\* ------------------------------------------------- the registry of images
\* installed_boxes(): the names `vagrant box list` prints, one per line
installed_boxes == installed

\* cuisine's file_exists for a reference string
file_exists(string) == string \in LocalFiles

\* ------------------------------------------------------------------- Base
\* Base.__init__
Base_init(string, boxes) ==
    IF Join(string) \in boxes
    THEN [box_string |-> string, name |-> Join(string), url |-> None,
          installed |-> TRUE, originally_installed |-> TRUE,
          basename |-> Join(string)]
    ELSE [box_string |-> string, name |-> None, url |-> Join(string),
          installed |-> FALSE, originally_installed |-> FALSE,
          basename |-> IF file_exists(string)
                       THEN Join(basename(splitext0(string)))
                       ELSE Join(basename(splitext0(urlsplit_path(string))))]

\* Base.find_unique_name: probe basename, basename-001, basename-002, ...
RECURSIVE probe(_, _, _)
probe(name0, count, boxes) ==
    LET box_name == IF count = 0 THEN name0
                    ELSE name0 \o "-" \o Format03i(count)
    IN  IF box_name \in boxes THEN probe(name0, count + 1, boxes) ELSE box_name

\* find_unique_name with count starting at 1: the bare basename is never tried
find_unique_name_from_one(b, boxes) == probe(b.basename, 1, boxes)

find_unique_name(b, boxes) == probe(b.basename, 0, boxes)

\* Base.ensure, first half: whether a box is added, and under which name
ensure_needed(b) == ~b.installed

\* ensure without the probe: a reference without a name is added under its
\* bare basename
ensure_name_unprobed(b, boxes) ==
    IF b.name \notin {None, ""} THEN b.name ELSE b.basename

ensure_name(b, boxes) ==
    IF b.name \notin {None, ""} THEN b.name ELSE find_unique_name(b, boxes)

\* clean without the originally_installed test
clean_needed_any(b) == b.installed

\* Base.clean: whether `vagrant box remove` is run
clean_needed(b) == b.installed /\ ~b.originally_installed

\* ------------------------------------------------------------ fabric's env
Keys == {"host_string", "host", "use_ssh_config", "_ssh_config", "cwd", "path",
         "mode_local", "shell", "user_key"}

\* env before the process touches it: no host given, or the test harness's
\* '$USER@localhost' inside mode_local()
EnvNoHost ==
    [k \in Keys |->
        CASE k = "host_string"    -> ""
          [] k = "host"           -> None
          [] k = "use_ssh_config" -> "False"
          [] k = "_ssh_config"    -> None
          [] k = "cwd"            -> ""
          [] k = "path"           -> ""
          [] k = "mode_local"     -> Absent
          [] k = "shell"          -> "/bin/bash -l -c"
          [] k = "user_key"       -> Absent]

EnvLocalhost ==
    [EnvNoHost EXCEPT !["host_string"] = "user@localhost", !["mode_local"] = "True"]

\* cuisine's is_local(): env.get(MODE_LOCAL, False)
is_local(e) == e["mode_local"] = "True"

\* the host string of the synthetic host of VM `id`
synthetic_host(id) == "vagrant-temporary-" \o id
synthetic_host_string(id) == "vagrant@" \o synthetic_host(id) \o ":2222"

\* the machine cuisine's run() sends a command to under env e
Machine(e) ==
    IF is_local(e) THEN Home
    ELSE IF e["host_string"] = "user@localhost" THEN Home
    ELSE IF e["host_string"] \in {Absent, ""} THEN "nohost"
    ELSE e["host_string"]

\* shell_env(VAGRANT_LOG=...) around a command that raises: the code after
\* its yield is skipped, the prefix stays in env['shell']
shell_env_leak(e) == [e EXCEPT !["shell"] = "VAGRANT_LOG=ERROR " \o @]

\* ----------------------------------------------------------- Python values
\* the values a keyword argument of the wrapper may hold, by type
PyNone     == [none |-> TRUE]
PyInt(n)   == [int |-> n]
PyStr(str) == [str |-> str]
PyRef(ref) == [ref |-> ref]

\* bool(v) is False
falsy(v) == v \in {PyNone, PyInt(0), PyStr(""), PyRef(<<>>)}

\* dict.pop(key, default): the value, and the dict without the key
pop_value(d, key, default) == IF key \in DOMAIN d THEN d[key] ELSE default
pop_rest(d, keys) == [k \in (DOMAIN d) \ keys |-> d[k]]

\* an entry of the command log
Event(cmd, arg, at, ok) == [cmd |-> cmd, arg |-> arg, at |-> at, ok |-> ok]

\* whether a command sent to machine m can be delivered at all
deliverable(m) ==
    \/ m = Home
    \/ m = "ops@elsewhere"
    \/ m \notin {Home, "ops@elsewhere", "nohost"} /\ vm = "running"

\* --------------------------------------------------------- build constants
VFILE_NONE == 0
VFILE_USE_CURRENT == 1
VFILE_COPY_FROM_BASE == 2
VFILE_STRATEGY_MAP ==
    [name \in {"inherit", "none", "current"} |->
        CASE name = "inherit" -> VFILE_COPY_FROM_BASE
          [] name = "none"    -> VFILE_NONE
          [] name = "current" -> VFILE_USE_CURRENT]
VFILE_STRATEGY_VALUES == {VFILE_STRATEGY_MAP[n] : n \in DOMAIN VFILE_STRATEGY_MAP}

\* the keyword arguments the wrapper reads
BuildArgs == {"install_as", "base", "package_vagrantfile", "package_as"}

\* the name of the decorated function
func_name == "buildbox"

\* ------------------------------------------------- VagrantContext, VagrantBox
\* the attributes a VagrantContext has
VagrantContextAttrs ==
    {"directory", "host_string", "execmode", "loglevel", "execution_context",
     "virtualbox", "uuid", "ip", "info", "list_boxes", "up", "reload", "halt",
     "destroy", "_up", "_down", "ssh_config", "package", "resume", "suspend",
     "status", "connect", "_connection_settings", "rewrite_vagrantfile",
     "read_vagrantfile", "_uuid", "_ip"}

\* the attributes a VagrantBox has of its own
VagrantBoxAttrs == {"context", "box_name", "basebox"}

\* the parameters VagrantContext.package accepts
PackageParams == {"vm", "base", "output", "include", "vagrantfile"}

\* a VagrantBox that answers for every attribute, unregister included
VagrantBox_getattr_any(attr) == "lambda"

\* VagrantBox.__getattr__(attr): a function forwarding to the context with
\* vm=box_name added, or AttributeError when the context has no such attribute
VagrantBox_getattr(attr) ==
    IF attr \in VagrantContextAttrs THEN "lambda" ELSE "AttributeError"

\* getattr(box, attr) for a VagrantBox or a VagrantContext: what kind of
\* value comes back
getattr_kind(kind, attr) ==
    IF kind = "VagrantBox"
    THEN IF attr \in VagrantBoxAttrs THEN "value" ELSE VagrantBox_getattr(attr)
    ELSE IF attr \in VagrantContextAttrs THEN "value" ELSE "AttributeError"

\* calling VagrantContext.package through a VagrantBox with keywords kws
package_call(kws) ==
    IF (kws \cup {"vm"}) \subseteq PackageParams THEN NoExc ELSE "TypeError"

\* resolve_package_vagrantfile(vfile, box) for box of the given kind: the
\* exception it raises (NoExc when it returns) and what it returns
resolve_package_vagrantfile(vfile, kind) ==
    LET dispatch(strategy) ==
            IF strategy = VFILE_COPY_FROM_BASE
            THEN IF getattr_kind(kind, "name") = "AttributeError"
                 THEN [raises |-> "AttributeError", value |-> PyNone]
                 ELSE [raises |-> NoExc, value |-> PyStr("<base Vagrantfile>")]
            ELSE IF strategy = VFILE_USE_CURRENT
            THEN IF getattr_kind(kind, "directory") # "value"
                 THEN [raises |-> "AttributeError", value |-> PyNone]
                 ELSE [raises |-> NoExc, value |-> PyStr("<current Vagrantfile>")]
            ELSE IF strategy = VFILE_NONE
            THEN [raises |-> NoExc, value |-> PyNone]
            ELSE [raises |-> "ValueError", value |-> PyNone]
    IN  IF DOMAIN vfile = {"int"}
        THEN IF vfile.int \in VFILE_STRATEGY_VALUES
             THEN dispatch(vfile.int)
             ELSE [raises |-> "ValueError", value |-> PyNone]
        ELSE \* `type(vfile) in types.StringType`: a type is not iterable
             [raises |-> "TypeError", value |-> PyNone]

\* the wrapper without its nested-build test
in_nested_build_never(subj) == FALSE

\* BaseboxDecorator.__call__.wrapper, line 113: already in a build
in_nested_build(subj) == subj # None

\* the wrapper's readarg(arg, default) with call-time keywords kw
readarg(kw, kwa, arg, default) ==
    LET v == pop_value(kw, arg, pop_value(kwa, arg, PyNone))
    IN  IF falsy(v) THEN default ELSE v

\* the VM a build brings up
VmId == "vm1"
\* the scratch directory `mktemp -d` prints
TmpDir == "/tmp/tmp.build"

NoSettings == [k \in Keys |-> Absent]
NoArgs == [install_as |-> PyNone, package_vfile |-> PyNone, package_as |-> PyNone]
NoOutcome == [finished |-> FALSE, raised |-> NoExc]

\* _VagrantConnectionManager.__init__: env.update(overrides); mode_remote()
overlay(e, id) ==
    [e EXCEPT !["use_ssh_config"] = "True",
              !["host"] = synthetic_host(id),
              !["host_string"] = synthetic_host_string(id),
              !["_ssh_config"] = "ssh_config+" \o synthetic_host(id),
              !["cwd"] = "",
              !["path"] = "",
              !["mode_local"] = "False"]

\* what is recorded of an overlay enter: the context's directory, the VM
\* the context owns, the identifier uuid() returned, the synthetic host
Entry(directory, own, id) ==
    [context |-> directory, vm |-> own, uuid |-> id, host |-> synthetic_host(id)]

\* no direct call of an operation
NoCall == [called |-> FALSE]

\* the result of a call that has not run yet
Pending == [raises |-> "<pending>", value |-> PyNone]

\* ------------------------------------------------------------------- Init
\* how the procedure was decorated: @basebox, or @basebox(base=..., ...)
\* what one top-level invocation did: ran the procedure directly or built,
\* the build arguments it read, the keywords it would hand to the procedure
Invocation(direct, b, a, passed) ==
    [direct |-> direct, base |-> b, install_as |-> a.install_as,
     package_vfile |-> a.package_vfile, passed |-> passed]

Decorations ==
    {<<>>} \cup
    {[install_as |-> PyStr("mybox"), base |-> PyRef(r),
      package_vagrantfile |-> PyInt(VFILE_NONE), package_as |-> PyStr("out.box")]
       : r \in Refs}

Init ==
    /\ installed \in SUBSET SeedNames
    /\ env \in {EnvNoHost, EnvLocalhost}
    /\ kwargs \in Decorations
    /\ scratch = FALSE
    /\ vm = "absent"
    /\ connections = {}
    /\ uuid_cache = None
    /\ subject = None
    /\ base = NoBase
    /\ pc = "idle"
    /\ exc = NoExc
    /\ build_dir = Unbound
    /\ vagrant = UnboundBox
    /\ original_settings = NoSettings
    /\ old_mode = Unbound
    /\ args = NoArgs
    /\ depth = 0
    /\ steps = 0
    /\ base_calls = 0
    /\ builds = 0
    /\ outcome = NoOutcome
    /\ log = <<>>
    /\ invocations = 0
    /\ was_installed = FALSE
    /\ snapshot = {}
    /\ entered = <<>>
    /\ resolving = NoCall
    /\ packaging = NoCall
    /\ listing = NoCall
    /\ builders = <<>>
    /\ script = [kwargs |-> kwargs, calls |-> 1]
    /\ history = <<>>
    /\ ip_cache = {}

\* ------------------------------------------------- Base.ensure / Base.clean
\* Base.ensure with the outcome of `vagrant box add`; raised is what it raises
ensure_effect(ok, raised) ==
    IF ensure_needed(base)
    THEN LET name == ensure_name(base, installed_boxes)
         IN  /\ snapshot' = installed
             /\ log' = Append(log, Event("vagrant box add", name, Machine(env), ok))
             /\ installed' = IF ok /\ Machine(env) = Home
                             THEN installed \cup {name} ELSE installed
             /\ base' = IF ok THEN [base EXCEPT !.name = name, !.installed = TRUE]
                        ELSE [base EXCEPT !.name = name]
             /\ raised = IF ok THEN NoExc ELSE "SystemExit: vagrant box add"
    ELSE /\ ok
         /\ raised = NoExc
         /\ UNCHANGED <<snapshot, log, installed, base>>

\* Base.clean with the outcome of `vagrant box remove`
clean_effect(ok, raised) ==
    IF clean_needed(base)
    THEN /\ log' = Append(log, Event("vagrant box remove", base.name, Machine(env), ok))
         /\ installed' = IF ok /\ Machine(env) = Home
                         THEN installed \ {base.name} ELSE installed
         /\ raised = IF ok THEN NoExc ELSE "SystemExit: vagrant box remove"
    ELSE /\ ok
         /\ raised = NoExc
         /\ UNCHANGED <<log, installed>>

\* a client constructs a Base of its own and calls ensure and clean on it
ClientNewBase(string) ==
    /\ UNCHANGED <<entered, resolving, packaging, listing, builders, script, history, ip_cache>>
    /\ pc = "idle" /\ builds = 0 /\ base = NoBase
    /\ base' = Base_init(string, installed_boxes)
    /\ was_installed' = (Join(string) \in installed)
    /\ UNCHANGED <<installed, scratch, vm, env, connections, uuid_cache, subject,
                   kwargs, pc, exc, build_dir, vagrant, original_settings,
                   old_mode, args, depth, steps, base_calls, builds, outcome,
                   log, snapshot, invocations>>

ClientEnsure(ok) ==
    /\ UNCHANGED <<entered, resolving, packaging, listing, builders, script, history, ip_cache>>
    /\ pc = "idle" /\ builds = 0 /\ base # NoBase
    /\ base_calls < MaxBaseCalls
    /\ base_calls' = base_calls + 1
    /\ \E raised \in {NoExc, "SystemExit: vagrant box add"} : ensure_effect(ok, raised)
    /\ UNCHANGED <<scratch, vm, env, connections, uuid_cache, subject, kwargs, pc,
                   exc, build_dir, vagrant, original_settings, old_mode, args,
                   depth, steps, builds, outcome, was_installed, invocations>>

ClientClean(ok) ==
    /\ UNCHANGED <<entered, resolving, packaging, listing, builders, script, history, ip_cache>>
    /\ pc = "idle" /\ builds = 0 /\ base # NoBase
    /\ base_calls < MaxBaseCalls
    /\ base_calls' = base_calls + 1
    /\ \E raised \in {NoExc, "SystemExit: vagrant box remove"} : clean_effect(ok, raised)
    /\ UNCHANGED <<scratch, vm, env, connections, uuid_cache, subject, kwargs, pc,
                   exc, build_dir, vagrant, original_settings, old_mode, args,
                   depth, steps, builds, outcome, was_installed, base, snapshot,
                   invocations>>

\* a VagrantContext of the client's own, in another directory, and its VM
OtherDir == "/tmp/tmp.client"
OtherVmId == "vm0"

\* the client runs `with ctx.connect(): run(...)` on its own context, with
\* every command succeeding: uuid() (cached under the class for vm=None), up,
\* ssh-config, the overlay entered, one remote command, the overlay exited
\* (its session dropped, env restored). The commands of the client's own
\* context are not entered in the command log.
ClientConnect ==
    /\ pc \in {"idle", "done"}
    /\ Machine(env) = Home
    /\ Cardinality({i \in DOMAIN entered : entered[i].context = OtherDir})
          < MaxClientConnects
    /\ LET id == IF uuid_cache = None THEN OtherVmId ELSE uuid_cache
       IN  /\ uuid_cache' = id
           /\ entered' = Append(entered, Entry(OtherDir, OtherVmId, id))
    /\ UNCHANGED <<installed, scratch, vm, env, connections, subject, kwargs,
                   base, pc, exc, build_dir, vagrant, original_settings, old_mode,
                   args, depth, steps, base_calls, builds, outcome, log,
                   invocations, was_installed, snapshot, resolving, packaging,
                   listing, builders, script, history, ip_cache>>

\* ------------------------------------------ the wrapper and tempbox, set-up
\* default_to_local, then BaseboxDecorator.__call__.wrapper up to the
\* `with tempbox(...)`, then tempbox up to its first try
WrapperCall ==
    /\ UNCHANGED <<entered, resolving, packaging, listing, builders, script, ip_cache>>
    /\ \/ pc = "idle" /\ builds = 0 /\ base = NoBase /\ Len(history) < script.calls
       \/ pc = "done" /\ Len(history) < script.calls /\ ~in_nested_build(subject)
       \/ pc = "proc" /\ depth < MaxNest /\ steps < MaxProcSteps
    /\ invocations' = invocations + 1
    /\ IF in_nested_build(subject)
       THEN \* return func(*a, **kw)
            /\ depth' = depth + 1
            /\ steps' = steps + 1
            /\ UNCHANGED <<installed, scratch, vm, env, connections, uuid_cache,
                           subject, kwargs, base, pc, exc, build_dir, vagrant,
                           original_settings, old_mode, args, base_calls, builds,
                           outcome, log, was_installed, snapshot, history>>
       ELSE LET kw == <<>>
                b  == readarg(kw, kwargs, "base", PyRef(RefUrl))
            IN  /\ old_mode' = IF env["host_string"] = "" THEN env["mode_local"]
                               ELSE Unbound
                /\ env' = IF env["host_string"] = ""
                          THEN [env EXCEPT !["mode_local"] = "True"] ELSE env
                /\ args' = [install_as |-> readarg(kw, kwargs, "install_as", PyStr(func_name)),
                            package_vfile |-> readarg(kw, kwargs, "package_vagrantfile",
                                                      PyInt(VFILE_COPY_FROM_BASE)),
                            package_as |-> readarg(kw, kwargs, "package_as", PyNone)]
                /\ kwargs' = pop_rest(kwargs, BuildArgs)
                /\ history' = Append(history, Invocation(FALSE, b, args', kwargs'))
                /\ base' = Base_init(b.ref, installed_boxes)
                /\ was_installed' = (Join(b.ref) \in installed)
                /\ pc' = "ensure"
                /\ exc' = NoExc
                /\ build_dir' = Unbound
                /\ vagrant' = UnboundBox
                /\ depth' = 0
                /\ steps' = 0
                /\ UNCHANGED <<installed, scratch, vm, connections, uuid_cache,
                               subject, original_settings, base_calls, builds,
                               outcome, log, snapshot>>

\* tempbox line 176: base.ensure()
Ensure(ok) ==
    /\ UNCHANGED <<entered, resolving, packaging, listing, builders, script, history, ip_cache>>
    /\ pc = "ensure"
    /\ \E raised \in {NoExc, "SystemExit: vagrant box add"} :
          /\ ensure_effect(ok, raised)
          /\ exc' = raised
          /\ pc' = IF raised = NoExc THEN "mktemp" ELSE "rm"
    /\ UNCHANGED <<scratch, vm, env, connections, uuid_cache, subject, kwargs,
                   build_dir, vagrant, original_settings, old_mode, args, depth,
                   steps, base_calls, builds, outcome, was_installed, invocations>>

\* tempbox line 177: build_dir = run('mktemp -d')
Mktemp(ok) ==
    /\ UNCHANGED <<entered, resolving, packaging, listing, builders, script, history, ip_cache>>
    /\ pc = "mktemp"
    /\ log' = Append(log, Event("mktemp -d", TmpDir, Machine(env), ok))
    /\ IF ok
       THEN /\ build_dir' = TmpDir
            /\ scratch' = (Machine(env) = Home)
            /\ pc' = "context"
            /\ exc' = exc
       ELSE /\ exc' = "SystemExit: mktemp"
            /\ pc' = "rm"
            /\ UNCHANGED <<build_dir, scratch>>
    /\ UNCHANGED <<installed, vm, env, connections, uuid_cache, subject, kwargs,
                   base, vagrant, original_settings, old_mode, args, depth, steps,
                   base_calls, builds, outcome, was_installed, snapshot, invocations>>

\* a failed rewrite_vagrantfile leaving the inner finally without its destroy
ContextSkipsDestroy(ok) ==
    /\ UNCHANGED <<entered, resolving, packaging, listing, builders, script, history, ip_cache>>
    /\ pc = "context"
    /\ vagrant' = [directory |-> build_dir,
                   host_string |-> env["host_string"],
                   execmode |-> IF is_local(env) THEN "mode_local" ELSE "mode_remote",
                   basebox |-> IF ok THEN base.name ELSE None]
    /\ IF ok
       THEN /\ subject' = "box"
            /\ pc' = "connect_uuid"
            /\ exc' = exc
       ELSE /\ exc' = "IOError: Vagrantfile"
            /\ pc' = "rm"
            /\ UNCHANGED subject
    /\ UNCHANGED <<installed, scratch, vm, env, connections, uuid_cache, kwargs,
                   base, build_dir, original_settings, old_mode, args, depth,
                   steps, base_calls, builds, outcome, log, was_installed,
                   snapshot, invocations>>

\* tempbox lines 180-190 and wrapper line 130: the VagrantBox, the rendered
\* Vagrantfile written into the scratch directory, then the yield
Context(ok) ==
    /\ UNCHANGED <<entered, resolving, packaging, listing, builders, script, history, ip_cache>>
    /\ pc = "context"
    /\ vagrant' = [directory |-> build_dir,
                   host_string |-> env["host_string"],
                   execmode |-> IF is_local(env) THEN "mode_local" ELSE "mode_remote",
                   basebox |-> IF ok THEN base.name ELSE None]
    /\ IF ok
       THEN /\ subject' = "box"
            /\ pc' = "connect_uuid"
            /\ exc' = exc
       ELSE /\ exc' = "IOError: Vagrantfile"
            /\ pc' = "destroy"
            /\ UNCHANGED subject
    /\ UNCHANGED <<installed, scratch, vm, env, connections, uuid_cache, kwargs,
                   base, build_dir, original_settings, old_mode, args, depth,
                   steps, base_calls, builds, outcome, log, was_installed,
                   snapshot, invocations>>

\* the machine VagrantContext.execution_context sends a command to: the
\* host_string and execution mode captured by VagrantContext.__init__
ContextMachine(box) ==
    IF box.execmode = "mode_local" THEN Home
    ELSE IF box.host_string = "user@localhost" THEN Home
    ELSE IF box.host_string = "" THEN "nohost"
    ELSE box.host_string

\* ------------------------------------------------ box.connect(): the overlay
\* _connection_settings line 201: self.uuid(vm), which brings the VM up when
\* no identifier is cached (uuid lines 44-52, up lines 85-88)
ConnectUuid(ok) ==
    /\ UNCHANGED <<entered, resolving, packaging, listing, builders, script, history, ip_cache>>
    /\ pc = "connect_uuid"
    /\ IF uuid_cache = None
       THEN /\ log' = Append(log, Event("vagrant up", vagrant.directory,
                                        ContextMachine(vagrant), ok))
            /\ IF ok
               THEN /\ vm' = "running"
                    /\ uuid_cache' = VmId
                    /\ pc' = "connect_up"
                    /\ UNCHANGED <<env, exc>>
               ELSE /\ env' = shell_env_leak(env)
                    /\ exc' = "SystemExit: vagrant up"
                    /\ pc' = "destroy"
                    /\ UNCHANGED <<vm, uuid_cache>>
       ELSE /\ ok
            /\ pc' = "connect_up"
            /\ UNCHANGED <<log, vm, uuid_cache, env, exc>>
    /\ UNCHANGED <<installed, scratch, connections, subject, kwargs, base,
                   build_dir, vagrant, original_settings, old_mode, args, depth,
                   steps, base_calls, builds, outcome, was_installed, snapshot, invocations>>

\* _connection_settings line 204: self.up(vm=vm)
ConnectUp(ok) ==
    /\ UNCHANGED <<entered, resolving, packaging, listing, builders, script, history, ip_cache>>
    /\ pc = "connect_up"
    /\ log' = Append(log, Event("vagrant up", vagrant.directory,
                                ContextMachine(vagrant), ok))
    /\ IF ok
       THEN /\ vm' = "running"
            /\ pc' = "connect_ssh"
            /\ UNCHANGED <<env, exc>>
       ELSE /\ env' = shell_env_leak(env)
            /\ exc' = "SystemExit: vagrant up"
            /\ pc' = "destroy"
            /\ UNCHANGED vm
    /\ UNCHANGED <<installed, scratch, connections, uuid_cache, subject, kwargs,
                   base, build_dir, vagrant, original_settings, old_mode, args,
                   depth, steps, base_calls, builds, outcome, was_installed,
                   snapshot, invocations>>

\* _connection_settings lines 205-227, then _VagrantConnectionManager.__init__
\* lines 241-244: snapshot env, apply the overrides, switch to remote mode
ConnectSshConfig(ok) ==
    /\ pc = "connect_ssh"
    /\ log' = Append(log, Event("vagrant ssh-config", vagrant.directory,
                                ContextMachine(vagrant), ok))
                \o IF ok THEN <<Event("overlay enter", synthetic_host(uuid_cache),
                                      "python", TRUE)>>
                   ELSE <<>>
    /\ IF ok
       THEN /\ original_settings' = env
            /\ env' = overlay(env, uuid_cache)
            /\ entered' = Append(entered, Entry(vagrant.directory, VmId, uuid_cache))
            /\ pc' = "proc"
            /\ exc' = exc
       ELSE /\ env' = shell_env_leak(env)
            /\ exc' = "SystemExit: vagrant ssh-config"
            /\ pc' = "destroy"
            /\ UNCHANGED <<original_settings, entered>>
    /\ UNCHANGED <<resolving, packaging, listing, builders, script, history, ip_cache>>
    /\ UNCHANGED <<installed, scratch, vm, connections, uuid_cache, subject,
                   kwargs, base, build_dir, vagrant, old_mode, args, depth, steps,
                   base_calls, builds, outcome, was_installed, snapshot, invocations>>

\* ------------------------------------------- the provisioning procedure
\* the procedure runs a command through run(): in remote mode fabric opens
\* (and caches) a session to env.host_string
ProcRun ==
    /\ UNCHANGED <<entered, resolving, packaging, listing, builders, script, history, ip_cache>>
    /\ pc = "proc" /\ steps < MaxProcSteps
    /\ steps' = steps + 1
    /\ connections' = IF ~is_local(env) /\ env["host_string"] \notin {Absent, ""}
                      THEN connections \cup {env["host_string"]}
                      ELSE connections
    /\ UNCHANGED <<installed, scratch, vm, env, uuid_cache, subject, kwargs, base,
                   pc, exc, build_dir, vagrant, original_settings, old_mode, args,
                   depth, base_calls, builds, outcome, log, was_installed,
                   snapshot, invocations>>

\* what the procedure may do to env: change a key, add a key, remove a key
ProcEnvChanges ==
    {<<"host_string", "ops@elsewhere">>, <<"user_key", "x">>, <<"cwd", Absent>>}

ProcSetEnv(key, value) ==
    /\ UNCHANGED <<entered, resolving, packaging, listing, builders, script, history, ip_cache>>
    /\ pc = "proc" /\ steps < MaxProcSteps
    /\ env[key] # value
    /\ steps' = steps + 1
    /\ env' = [env EXCEPT ![key] = value]
    /\ UNCHANGED <<installed, scratch, vm, connections, uuid_cache, subject,
                   kwargs, base, pc, exc, build_dir, vagrant, original_settings,
                   old_mode, args, depth, base_calls, builds, outcome, log,
                   was_installed, snapshot, invocations>>

\* a wrapped procedure called from the provisioning procedure returns
ProcNestedReturn ==
    /\ UNCHANGED <<entered, resolving, packaging, listing, builders, script, history, ip_cache>>
    /\ pc = "proc" /\ depth > 0
    /\ depth' = depth - 1
    /\ UNCHANGED <<installed, scratch, vm, env, connections, uuid_cache, subject,
                   kwargs, base, pc, exc, build_dir, vagrant, original_settings,
                   old_mode, args, steps, base_calls, builds, outcome, log,
                   was_installed, snapshot, invocations>>

\* the packaging moved inside the `with box.connect()` block
ProcReturnInsideOverlay ==
    /\ UNCHANGED <<entered, resolving, packaging, listing, builders, script, history, ip_cache>>
    /\ pc = "proc" /\ depth = 0
    /\ pc' = "package"
    /\ log' = Append(log, Event("procedure", "returned", "python", TRUE))
    /\ UNCHANGED <<installed, scratch, vm, env, connections, uuid_cache, subject,
                   kwargs, base, exc, build_dir, vagrant, original_settings,
                   old_mode, args, depth, steps, base_calls, builds, outcome,
                   was_installed, snapshot, invocations>>

\* wrapper line 134: func returns
ProcReturn ==
    /\ UNCHANGED <<entered, resolving, packaging, listing, builders, script, history, ip_cache>>
    /\ pc = "proc" /\ depth = 0
    /\ pc' = "exit"
    /\ log' = Append(log, Event("procedure", "returned", "python", TRUE))
    /\ UNCHANGED <<installed, scratch, vm, env, connections, uuid_cache, subject,
                   kwargs, base, exc, build_dir, vagrant, original_settings,
                   old_mode, args, depth, steps, base_calls, builds, outcome,
                   was_installed, snapshot, invocations>>

\* wrapper line 134: func raises (at any depth of nested calls)
ProcRaise ==
    /\ UNCHANGED <<entered, resolving, packaging, listing, builders, script, history, ip_cache>>
    /\ pc = "proc"
    /\ pc' = "exit"
    /\ exc' = "ProvisioningError"
    /\ depth' = 0
    /\ log' = Append(log, Event("procedure", "raised", "python", FALSE))
    /\ UNCHANGED <<installed, scratch, vm, env, connections, uuid_cache, subject,
                   kwargs, base, build_dir, vagrant, original_settings, old_mode,
                   args, steps, base_calls, builds, outcome, was_installed,
                   snapshot, invocations>>

\* _VagrantConnectionManager.__exit__: drop the cached session of
\* env.host_string, then env.clear(); env.update(original_settings)
OverlayExit ==
    /\ UNCHANGED <<entered, resolving, packaging, listing, builders, script, history, ip_cache>>
    /\ pc = "exit"
    /\ LET key == env["host_string"]
           raised == IF key = Absent THEN "AttributeError"
                     ELSE IF key \notin connections THEN "KeyError"
                     ELSE NoExc
       IN  /\ IF raised = NoExc
              THEN /\ connections' = connections \ {key}
                   /\ env' = original_settings
                   /\ exc' = exc
              ELSE /\ exc' = raised
                   /\ UNCHANGED <<connections, env>>
           /\ pc' = IF exc' = NoExc THEN "package" ELSE "destroy"
           /\ log' = Append(log, Event("overlay exit", key, "python", raised = NoExc))
    /\ UNCHANGED <<installed, scratch, vm, uuid_cache, subject, kwargs, base,
                   build_dir, vagrant, original_settings, old_mode, args, depth,
                   steps, base_calls, builds, outcome, was_installed,
                   snapshot, invocations>>

\* wrapper lines 137-140: resolve the package Vagrantfile, then box.package
Package ==
    /\ UNCHANGED <<entered, resolving, packaging, listing, builders, script, history, ip_cache>>
    /\ pc = "package"
    /\ LET r == resolve_package_vagrantfile(args.package_vfile, "VagrantBox")
           called == package_call({"vagrantfile", "install_as", "output"})
           resolved == Event("resolve_package_vagrantfile", r.raises, "python",
                             r.raises = NoExc)
       IN  IF r.raises # NoExc
           THEN /\ exc' = r.raises
                /\ pc' = "destroy"
                /\ log' = Append(log, resolved)
           ELSE /\ log' = log \o <<resolved, Event("box.package", called, "python",
                                                   called = NoExc)>>
                /\ IF called # NoExc
                   THEN exc' = called /\ pc' = "destroy"
                   ELSE exc' = exc /\ pc' = "package_run"
    /\ UNCHANGED <<installed, scratch, vm, env, connections, uuid_cache, subject,
                   kwargs, base, build_dir, vagrant, original_settings, old_mode,
                   args, depth, steps, base_calls, builds, outcome,
                   was_installed, snapshot, invocations>>

\* ----------------------------------------------------------- the teardown
\* tempbox lines 191-196: vagrant.destroy(force=True), and on any exception
\* vagrant.unregister(delete=True)
Destroy(ok) ==
    /\ UNCHANGED <<entered, resolving, packaging, listing, builders, script, history, ip_cache>>
    /\ pc = "destroy"
    /\ pc' = "rm"
    /\ IF vagrant \in {UnboundBox, NoneBox}
       THEN /\ ok
            /\ UNCHANGED <<log, vm, env, exc, uuid_cache>>
       ELSE LET at == ContextMachine(vagrant)
                destroyed == Event("vagrant destroy --force", vagrant.directory, at, ok)
            IN  IF ok
                THEN /\ log' = Append(log, destroyed)
                     /\ vm' = IF at = Home THEN "absent" ELSE vm
                     /\ UNCHANGED <<env, exc, uuid_cache>>
                ELSE /\ env' = shell_env_leak(env)
                     /\ IF VagrantBox_getattr("unregister") = "AttributeError"
                        THEN /\ log' = Append(log, destroyed)
                             /\ exc' = "AttributeError"
                             /\ UNCHANGED <<vm, uuid_cache>>
                        ELSE \* VirtualBox.unregister asks context.uuid(),
                             \* which brings the VM up when nothing is cached
                             LET id == IF uuid_cache = None THEN VmId ELSE uuid_cache
                             IN  /\ log' = log \o <<destroyed>>
                                      \o (IF uuid_cache = None
                                          THEN <<Event("vagrant up", vagrant.directory,
                                                       at, TRUE)>>
                                          ELSE <<>>)
                                      \o <<Event("VBoxManage unregistervm --delete",
                                                 id, Machine(env), TRUE)>>
                                 /\ uuid_cache' = id
                                 /\ vm' = "absent"
                                 /\ exc' = exc
    /\ UNCHANGED <<installed, scratch, connections, subject, kwargs,
                   base, build_dir, vagrant, original_settings, old_mode, args,
                   depth, steps, base_calls, builds, outcome, was_installed,
                   snapshot, invocations>>

\* tempbox lines 197-200: if build_dir: run('rm -rf %s' % build_dir)
Rm(ok) ==
    /\ UNCHANGED <<entered, resolving, packaging, listing, builders, script, history, ip_cache>>
    /\ pc = "rm"
    /\ IF build_dir = Unbound
       THEN /\ ok
            /\ exc' = "UnboundLocalError"
            /\ pc' = "finish"
            /\ UNCHANGED <<log, scratch>>
       ELSE /\ ok => deliverable(Machine(env))
            /\ log' = Append(log, Event("rm -rf", build_dir, Machine(env), ok))
            /\ scratch' = IF ok /\ Machine(env) = Home THEN FALSE ELSE scratch
            /\ exc' = IF ok THEN exc ELSE "SystemExit: rm -rf"
            /\ pc' = IF ok THEN "clean" ELSE "finish"
    /\ UNCHANGED <<installed, vm, env, connections, uuid_cache, subject, kwargs,
                   base, build_dir, vagrant, original_settings, old_mode, args,
                   depth, steps, base_calls, builds, outcome, was_installed,
                   snapshot, invocations>>

\* tempbox line 201: base.clean()
Clean(ok) ==
    /\ UNCHANGED <<entered, resolving, packaging, listing, builders, script, history, ip_cache>>
    /\ pc = "clean"
    /\ ok => deliverable(Machine(env))
    /\ \E raised \in {NoExc, "SystemExit: vagrant box remove"} :
          /\ clean_effect(ok, raised)
          /\ exc' = IF raised = NoExc THEN exc ELSE raised
    /\ pc' = "finish"
    /\ UNCHANGED <<scratch, vm, env, connections, uuid_cache, subject, kwargs,
                   base, build_dir, vagrant, original_settings, old_mode, args,
                   depth, steps, base_calls, builds, outcome, was_installed,
                   snapshot, invocations>>

\* the wrapper returns or raises to its caller, through default_to_local's
\* `with mode_local()`, which puts the old mode back
Finish ==
    /\ UNCHANGED <<entered, resolving, packaging, listing, builders, script, history, ip_cache>>
    /\ pc = "finish"
    /\ pc' = "done"
    /\ builds' = builds + 1
    /\ outcome' = [finished |-> TRUE, raised |-> exc]
    /\ exc' = NoExc
    /\ env' = IF old_mode = Unbound THEN env
              ELSE [env EXCEPT !["mode_local"] = old_mode]
    /\ UNCHANGED <<installed, scratch, vm, connections, uuid_cache, subject,
                   kwargs, base, build_dir, vagrant, original_settings, old_mode,
                   args, depth, steps, base_calls, log, was_installed,
                   snapshot, invocations>>

\* ------------------------------------------------------------------- Next
Next ==
    \/ \E string \in Refs : ClientNewBase(string)
    \/ \E ok \in BOOLEAN : ClientEnsure(ok)
    \/ \E ok \in BOOLEAN : ClientClean(ok)
    \/ ClientConnect
    \/ WrapperCall
    \/ \E ok \in BOOLEAN : Ensure(ok)
    \/ \E ok \in BOOLEAN : Mktemp(ok)
    \/ \E ok \in BOOLEAN : Context(ok)
    \/ \E ok \in BOOLEAN : ConnectUuid(ok)
    \/ \E ok \in BOOLEAN : ConnectUp(ok)
    \/ \E ok \in BOOLEAN : ConnectSshConfig(ok)
    \/ ProcRun
    \/ \E change \in ProcEnvChanges : ProcSetEnv(change[1], change[2])
    \/ ProcNestedReturn
    \/ ProcReturn
    \/ ProcRaise
    \/ OverlayExit
    \/ Package
    \/ \E ok \in BOOLEAN : Destroy(ok)
    \/ \E ok \in BOOLEAN : Rm(ok)
    \/ \E ok \in BOOLEAN : Clean(ok)
    \/ Finish

Spec == Init /\ [][Next]_vars

\* ------------------------------------------- a caller that invokes it again
\* the top-level invocations the caller makes one after another
MaxBuilds == 2

RetryInit ==
    /\ installed = {}
    /\ env \in {EnvNoHost, EnvLocalhost}
    /\ kwargs \in Decorations
    /\ scratch = FALSE
    /\ vm = "absent"
    /\ connections = {}
    /\ uuid_cache = None
    /\ subject = None
    /\ base = NoBase
    /\ pc = "idle"
    /\ exc = NoExc
    /\ build_dir = Unbound
    /\ vagrant = UnboundBox
    /\ original_settings = NoSettings
    /\ old_mode = Unbound
    /\ args = NoArgs
    /\ depth = 0
    /\ steps = 0
    /\ base_calls = 0
    /\ builds = 0
    /\ outcome = NoOutcome
    /\ log = <<>>
    /\ invocations = 0
    /\ was_installed = FALSE
    /\ snapshot = {}
    /\ entered = <<>>
    /\ resolving = NoCall
    /\ packaging = NoCall
    /\ listing = NoCall
    /\ builders = <<>>
    /\ script = [kwargs |-> kwargs, calls |-> MaxBuilds]
    /\ history = <<>>
    /\ ip_cache = {}

\* a top-level invocation that finds __subject__ set: wrapper line 113-114,
\* `return func(*a, **kw)` with the caller's env; ok is whether func returns
DirectCall(ok) ==
    /\ pc = "done" /\ Len(history) < script.calls /\ in_nested_build(subject)
    /\ invocations' = invocations + 1
    /\ history' = Append(history, Invocation(TRUE, PyNone, NoArgs, kwargs))
    /\ log' = Append(log, Event("procedure", IF ok THEN "returned" ELSE "raised",
                                "python", ok))
    /\ UNCHANGED <<installed, scratch, vm, env, connections, uuid_cache, subject,
                   kwargs, base, pc, exc, build_dir, vagrant, original_settings,
                   old_mode, args, depth, steps, base_calls, builds, outcome,
                   was_installed, snapshot, entered, resolving, packaging,
                   listing, builders, script, ip_cache>>

RetryNext ==
    \/ Next
    \/ \E ok \in BOOLEAN : DirectCall(ok)

RetrySpec == RetryInit /\ [][RetryNext]_vars

\* ------------------------------------- two builds sharing the box registry
\* the state of one build outside any call, registry and env apart
Quiet ==
    /\ scratch = FALSE /\ vm = "absent" /\ connections = {}
    /\ uuid_cache = None /\ subject = None /\ base = NoBase
    /\ pc = "idle" /\ exc = NoExc /\ build_dir = Unbound
    /\ vagrant = UnboundBox /\ original_settings = NoSettings
    /\ old_mode = Unbound /\ args = NoArgs /\ depth = 0 /\ steps = 0
    /\ base_calls = 0 /\ builds = 0 /\ outcome = NoOutcome /\ log = <<>>
    /\ invocations = 0 /\ was_installed = FALSE /\ snapshot = {}
    /\ entered = <<>> /\ history = <<>> /\ kwargs = <<>> /\ ip_cache = {}
    /\ script = [kwargs |-> <<>>, calls |-> 0]

\* what a build of another process leaves alone in this one
process_state ==
    <<scratch, vm, env, connections, uuid_cache, subject, kwargs, base, pc, exc,
      build_dir, vagrant, original_settings, old_mode, args, depth, steps,
      base_calls, builds, outcome, log, invocations, was_installed, snapshot,
      entered, script, history, ip_cache>>

\* the processes that build at the same time, each with its own tempbox
Procs == {"A", "B"}

\* a process before tempbox constructs its Base; probed is the registry as
\* find_unique_name saw it, consistent whether it was still so at `box add`
NewBuilder == [pc |-> "new", base |-> NoBase, probed |-> {}, consistent |-> FALSE]

RaceInit ==
    /\ Quiet
    /\ installed \in SUBSET SeedNames
    /\ env = EnvLocalhost
    /\ resolving = NoCall /\ packaging = NoCall /\ listing = NoCall
    /\ builders = [p \in Procs |-> NewBuilder]

\* tempbox line 171: Base(base), reading the registry
BNew(p, string) ==
    /\ builders[p].pc = "new"
    /\ builders' = [builders EXCEPT ![p].pc = "ensure",
                                    ![p].base = Base_init(string, installed_boxes)]
    /\ UNCHANGED <<installed, resolving, packaging, listing>>
    /\ UNCHANGED process_state

\* Base.ensure up to the name: `self.name or self.find_unique_name()`
BProbe(p) ==
    /\ builders[p].pc = "ensure"
    /\ LET b == builders[p].base
       IN  builders' =
             IF ensure_needed(b)
             THEN [builders EXCEPT ![p].pc = "add",
                                   ![p].base.name = ensure_name(b, installed_boxes),
                                   ![p].probed = installed]
             ELSE [builders EXCEPT ![p].pc = "build"]
    /\ UNCHANGED <<installed, resolving, packaging, listing>>
    /\ UNCHANGED process_state

\* Base.ensure: run('vagrant box add name ref'), then installed = True
BAdd(p, ok) ==
    /\ builders[p].pc = "add"
    /\ installed' = IF ok THEN installed \cup {builders[p].base.name} ELSE installed
    /\ builders' = [builders EXCEPT ![p].pc = IF ok THEN "build" ELSE "done",
                                    ![p].base.installed = ok,
                                    ![p].consistent = (installed = builders[p].probed)]
    /\ UNCHANGED <<resolving, packaging, listing>>
    /\ UNCHANGED process_state

\* tempbox from mktemp to the outer finally; reaches is whether control
\* arrives at base.clean()
BBuild(p, reaches) ==
    /\ builders[p].pc = "build"
    /\ builders' = [builders EXCEPT ![p].pc = IF reaches THEN "clean" ELSE "done"]
    /\ UNCHANGED <<installed, resolving, packaging, listing>>
    /\ UNCHANGED process_state

\* Base.clean: run('vagrant box remove name') for a box this Base added
BClean(p, ok) ==
    /\ builders[p].pc = "clean"
    /\ installed' = IF clean_needed(builders[p].base) /\ ok
                    THEN installed \ {builders[p].base.name} ELSE installed
    /\ builders' = [builders EXCEPT ![p].pc = "done"]
    /\ UNCHANGED <<resolving, packaging, listing>>
    /\ UNCHANGED process_state

RaceNext ==
    \/ \E p \in Procs, string \in Refs : BNew(p, string)
    \/ \E p \in Procs : BProbe(p)
    \/ \E p \in Procs, ok \in BOOLEAN : BAdd(p, ok)
    \/ \E p \in Procs, reaches \in BOOLEAN : BBuild(p, reaches)
    \/ \E p \in Procs, ok \in BOOLEAN : BClean(p, ok)

RaceSpec == RaceInit /\ [][RaceNext]_vars

\* ------------------------------------------------- VagrantContext.status
\* a line is a sequence of pieces: words, and runs of whitespace
WS == {" ", "      "}

\* re.split('\s+', line): a run of whitespace ends one token and starts the
\* next, so a line that starts or ends with whitespace yields an empty token
RECURSIVE re_split(_)
re_split(line) ==
    IF line = <<>> THEN <<"">>
    ELSE LET rest == re_split(Tail(line))
         IN  IF Head(line) \in WS THEN <<"">> \o rest
             ELSE <<Head(line) \o Head(rest)>> \o Tail(rest)

\* ' '.join(tokens)
RECURSIVE join_space(_)
join_space(tokens) ==
    IF tokens = <<>> THEN ""
    ELSE IF Len(tokens) = 1 THEN tokens[1]
    ELSE tokens[1] \o " " \o join_space(Tail(tokens))

\* [idx for idx, x in enumerate(lines) if x == ''], indices from 1
blank_lines(lines) ==
    SelectSeq([i \in 1..Len(lines) |-> i], LAMBDA i : lines[i] = <<>>)

\* the slice starting at the first blank line itself
section_from_blank(lines, start, end) == SubSeq(lines, start, end - 1)

\* lines[start + 1:end]
section(lines, start, end) == SubSeq(lines, start + 1, end - 1)

\* {x[0]: ' '.join(x[1:]) for x in status_parts}: a later row replaces an
\* earlier one with the same key
RECURSIVE status_map(_)
status_map(parts) ==
    IF parts = <<>> THEN <<>>
    ELSE LET x == parts[Len(parts)]
             d == status_map(SubSeq(parts, 1, Len(parts) - 1))
         IN  [k \in DOMAIN d \cup {x[1]} |->
                 IF k = x[1] THEN join_space(Tail(x)) ELSE d[k]]

\* status(vm) on the lines `vagrant status` printed
status(lines, qualifier) ==
    LET blanks == blank_lines(lines)
    IN  IF Len(blanks) < 2
        THEN [raises |-> "ValueError", value |-> PyNone]
        ELSE LET rows  == section(lines, blanks[1], blanks[2])
                 parts == [i \in 1..Len(rows) |-> re_split(rows[i])]
                 d     == status_map(parts)
             IN  IF qualifier \in {None, ""}
                 THEN [raises |-> NoExc, value |-> [dict |-> d]]
                 ELSE IF qualifier \in DOMAIN d
                      THEN [raises |-> NoExc, value |-> PyStr(d[qualifier])]
                      ELSE [raises |-> NoExc, value |-> PyNone]

\* the rows of one listing
MaxRows == 2

HeaderLine == <<"Current", " ", "VM", " ", "states:">>
FooterLine == <<"The", " ", "VM", " ", "is", " ", "running.">>
FooterMore == <<"To", " ", "stop", " ", "it", " ", "run", " ", "vagrant", " ", "halt.">>
StatusRows ==
    {<<"box1", "      ", "running">>, <<"box2", "      ", "poweroff">>,
     <<"default", "      ", "not", " ", "created">>}
RowSeqs == UNION {[1..n -> StatusRows] : n \in 0..MaxRows}

\* listings as vagrant prints them, and ones cut short of a blank line
StatusListings ==
    {header \o <<<<>>>> \o rows \o second \o footer :
        header \in {<<>>, <<HeaderLine>>}, rows \in RowSeqs,
        second \in {<<>>, <<<<>>>>},
        footer \in {<<>>, <<FooterLine>>, <<FooterLine, <<>>, FooterMore>>}}

\* what an operation on a VagrantContext leaves alone
context_frame ==
    <<installed, scratch, connections, subject, kwargs, base, pc, build_dir,
      vagrant, original_settings, old_mode, args, depth, base_calls, builds,
      log, invocations, was_installed, snapshot, entered, resolving, builders,
      script, history, ip_cache>>

StatusInit ==
    /\ Quiet
    /\ installed = {}
    /\ env = EnvLocalhost
    /\ resolving = NoCall /\ packaging = NoCall /\ builders = <<>>
    /\ listing \in [called : {TRUE}, lines : StatusListings,
                     qualifier : {None, "box1", "box3"}, result : {Pending}]

\* VagrantContext.status inside execution_context; ok is whether
\* `vagrant status` exits with 0
Status(ok) ==
    /\ listing.called /\ listing.result = Pending
    /\ LET r == IF ok THEN status(listing.lines, listing.qualifier)
                ELSE [raises |-> "SystemExit: vagrant status", value |-> PyNone]
       IN  /\ listing' = [listing EXCEPT !.result = r]
           /\ exc' = r.raises
           /\ env' = IF r.raises = NoExc THEN env ELSE shell_env_leak(env)
    /\ UNCHANGED <<vm, uuid_cache, steps, outcome, packaging>>
    /\ UNCHANGED context_frame

StatusNext == \E ok \in BOOLEAN : Status(ok)

StatusSpec == StatusInit /\ [][StatusNext]_vars

\* ----------------------------- resolve_package_vagrantfile called directly
\* strings a caller may hand in: the strategy names, a Vagrantfile body
\* (it contains 'Vagrant::Config'), a path, and a string that is none of these
LiteralBody == "Vagrant::Config.run do |config| end"
VagrantfilePath == "/tmp/x/Vagrantfile"
ResolveStrings ==
    {"inherit", "none", "current", LiteralBody, VagrantfilePath, "garbage"}

\* the values of vfile: integers, strings, None
ResolveInputs ==
    {PyInt(n) : n \in (0 - 1)..MaxCode} \cup {PyStr(x) : x \in ResolveStrings}
        \cup {PyNone}

\* the files that may exist where the call is made
ResolveFiles == {"inherit", LiteralBody, VagrantfilePath}

\* the kinds of object handed in as box
BoxKinds == {"VagrantBox", "VagrantContext"}

\* a call about to be made: its arguments, the files that exist, whether
\* the base box publishes include/_Vagrantfile
ResolveInit ==
    /\ resolving \in [called : {TRUE}, vfile : ResolveInputs, kind : BoxKinds,
                       files : SUBSET ResolveFiles, publishes : BOOLEAN,
                       result : {Pending}]
    /\ installed = {}
    /\ env = EnvLocalhost
    /\ kwargs = <<>>
    /\ scratch = FALSE
    /\ vm = "absent"
    /\ connections = {}
    /\ uuid_cache = None
    /\ subject = None
    /\ base = NoBase
    /\ pc = "idle"
    /\ exc = NoExc
    /\ build_dir = Unbound
    /\ vagrant = UnboundBox
    /\ original_settings = NoSettings
    /\ old_mode = Unbound
    /\ args = NoArgs
    /\ depth = 0
    /\ steps = 0
    /\ base_calls = 0
    /\ builds = 0
    /\ outcome = NoOutcome
    /\ log = <<>>
    /\ invocations = 0
    /\ was_installed = FALSE
    /\ snapshot = {}
    /\ entered = <<>>
    /\ packaging = NoCall
    /\ listing = NoCall
    /\ builders = <<>>
    /\ script = [kwargs |-> kwargs, calls |-> 0]
    /\ history = <<>>
    /\ ip_cache = {}

\* the call: resolve_package_vagrantfile(vfile, box)
Resolve ==
    /\ resolving.called /\ resolving.result = Pending
    /\ resolving' = [resolving EXCEPT
                        !.result = resolve_package_vagrantfile(resolving.vfile,
                                                               resolving.kind)]
    /\ UNCHANGED <<installed, scratch, vm, env, connections, uuid_cache, subject,
                   kwargs, base, pc, exc, build_dir, vagrant, original_settings,
                   old_mode, args, depth, steps, base_calls, builds, outcome, log,
                   invocations, was_installed, snapshot, entered, packaging,
                   listing, builders, script, history, ip_cache>>

ResolveNext == Resolve

ResolveSpec == ResolveInit /\ [][ResolveNext]_vars

\* ------------------------------------- operations on one VagrantContext
\* the operations a caller makes on the context, one after another
MaxOps == 3

\* the vagrantfile argument of package: None, True, the text of a
\* Vagrantfile, a file name, an open file, an object whose read is a function
VagrantfileArgs ==
    {PyNone, [bool |-> TRUE], PyStr(LiteralBody), PyStr(VagrantfilePath),
     [stream |-> "file"], [stream |-> "function"]}

\* package lines 150 and 157-158: the branches that call tempfile.mkstemp()
makes_tmpfile(vfile) ==
    \/ DOMAIN vfile = {"stream"} /\ vfile.stream = "function"
    \/ DOMAIN vfile = {"str"} /\ vfile.str = LiteralBody

\* the name tempfile.mkstemp() returns
TmpFile == "/tmp/tmpXXXXXX"

\* what `vagrant status` prints for the context's one VM
StatusOutput(state) ==
    <<HeaderLine, <<>>,
      <<"default", "      ">> \o
         (IF state = "absent" THEN <<"not", " ", "created">> ELSE <<state>>),
      <<>>, FooterLine>>

ContextInit ==
    /\ Quiet
    /\ installed = {}
    /\ env = EnvLocalhost
    /\ resolving = NoCall /\ packaging = NoCall /\ listing = NoCall
    /\ builders = <<>>

\* no operation is under way
AtRest == IF packaging.called THEN packaging.pc \in {"returned", "raised"} ELSE TRUE

\* an operation that ran `cmd` with the VM in state `was` and raised `raised`
Op(cmd, was, raised) == [op |-> cmd, was |-> was, raised |-> raised]

\* _up: run(cmd) aborts when the command fails; up() then caches the uuid
Up(cmd, ok) ==
    /\ AtRest /\ steps < MaxOps
    /\ cmd = "vagrant reload" => vm # "absent"
    /\ steps' = steps + 1
    /\ LET raised == IF ok THEN NoExc ELSE "SystemExit: " \o cmd
       IN  /\ exc' = raised
           /\ outcome' = Op(cmd, vm, raised)
           /\ env' = IF ok THEN env ELSE shell_env_leak(env)
           /\ vm' = IF ok THEN "running" ELSE vm
           /\ uuid_cache' = IF ok /\ cmd = "vagrant up" /\ uuid_cache = None
                            THEN VmId ELSE uuid_cache
    /\ UNCHANGED <<packaging, listing>>
    /\ UNCHANGED context_frame

\* _down without its test of the result
down_raises_always(failed) == "Exception"

\* _down lines 120-121: if result.failed: raise Exception(result)
down_raises(failed) == IF failed THEN "Exception" ELSE NoExc

\* _down under warn_only; `vagrant destroy` of a VM that does not exist
\* reports so and exits with 0
Down(cmd, ok) ==
    /\ AtRest /\ steps < MaxOps
    /\ (cmd = "vagrant destroy" /\ vm = "absent") => ok
    /\ steps' = steps + 1
    /\ LET raised == down_raises(~ok)
       IN  /\ exc' = raised
           /\ outcome' = Op(cmd, vm, raised)
           /\ env' = IF raised = NoExc THEN env ELSE shell_env_leak(env)
    /\ vm' = IF ~ok \/ vm = "absent" THEN vm
             ELSE IF cmd = "vagrant destroy" THEN "absent" ELSE "poweroff"
    /\ UNCHANGED <<uuid_cache, packaging, listing>>
    /\ UNCHANGED context_frame

\* status() on what vagrant prints for this context
CtxStatus(ok) ==
    /\ AtRest /\ steps < MaxOps
    /\ steps' = steps + 1
    /\ LET r == IF ok THEN status(StatusOutput(vm), None)
                ELSE [raises |-> "SystemExit: vagrant status", value |-> PyNone]
       IN  /\ listing' = [called |-> TRUE, lines |-> StatusOutput(vm),
                          qualifier |-> None, result |-> r]
           /\ exc' = r.raises
           /\ outcome' = Op("vagrant status", vm, r.raises)
           /\ env' = IF r.raises = NoExc THEN env ELSE shell_env_leak(env)
    /\ UNCHANGED <<vm, uuid_cache, packaging>>
    /\ UNCHANGED context_frame

\* ssh_config(): `vagrant ssh-config` succeeds only for a running VM
SshConfig(ok) ==
    /\ AtRest /\ steps < MaxOps
    /\ ok => vm = "running"
    /\ steps' = steps + 1
    /\ LET raised == IF ok THEN NoExc ELSE "SystemExit: vagrant ssh-config"
       IN  /\ exc' = raised
           /\ outcome' = Op("vagrant ssh-config", vm, raised)
           /\ env' = IF ok THEN env ELSE shell_env_leak(env)
    /\ UNCHANGED <<vm, uuid_cache, packaging, listing>>
    /\ UNCHANGED context_frame

\* package lines 136-168: build the command; include is whether an include
\* list is given (line 145 then adds a tuple to a string); mk is how
\* mkstemp and the write of the content go
PackageBegin(vfile, include, mk) ==
    /\ AtRest /\ steps < MaxOps
    /\ LET left == IF packaging.called THEN packaging.files ELSE {}
           call(at, tmpfile, files, raised) ==
               [called |-> TRUE, vfile |-> vfile, include |-> include, pc |-> at,
                tmpfile |-> tmpfile, files |-> files,
                made |-> files # left, exc |-> raised]
       IN  packaging' =
             IF include THEN call("finally", None, left, "TypeError")
             ELSE IF ~makes_tmpfile(vfile) THEN call("run", None, left, NoExc)
             ELSE CASE mk = "ok" -> call("run", TmpFile, left \cup {TmpFile}, NoExc)
                    [] mk = "mkstemp fails" -> call("finally", None, left, "OSError")
                    [] mk = "write fails" ->
                         call("finally", TmpFile, left \cup {TmpFile}, "IOError")
    /\ UNCHANGED <<vm, env, exc, uuid_cache, steps, outcome, listing>>
    /\ UNCHANGED context_frame

\* package line 170: run(cmd)
PackageRun(ok) ==
    /\ packaging.called /\ packaging.pc = "run"
    /\ packaging' = [packaging EXCEPT
                        !.pc = "finally",
                        !.exc = IF ok THEN NoExc ELSE "SystemExit: vagrant package"]
    /\ UNCHANGED <<vm, env, exc, uuid_cache, steps, outcome, listing>>
    /\ UNCHANGED context_frame

\* the unlink placed after run(cmd) inside the try
PackageFinallyOnSuccess ==
    /\ packaging.called /\ packaging.pc = "finally"
    /\ steps' = steps + 1
    /\ packaging' = [packaging EXCEPT
                        !.pc = IF packaging.exc = NoExc THEN "returned" ELSE "raised",
                        !.files = IF packaging.tmpfile # None /\ packaging.exc = NoExc
                                  THEN @ \ {packaging.tmpfile} ELSE @]
    /\ exc' = packaging.exc
    /\ outcome' = Op("vagrant package", vm, packaging.exc)
    /\ env' = IF packaging.exc = NoExc THEN env ELSE shell_env_leak(env)
    /\ UNCHANGED <<vm, uuid_cache, listing>>
    /\ UNCHANGED context_frame

\* package lines 172-174, then the exit of execution_context
PackageFinally ==
    /\ packaging.called /\ packaging.pc = "finally"
    /\ steps' = steps + 1
    /\ packaging' = [packaging EXCEPT
                        !.pc = IF packaging.exc = NoExc THEN "returned" ELSE "raised",
                        !.files = IF packaging.tmpfile # None
                                  THEN @ \ {packaging.tmpfile} ELSE @]
    /\ exc' = packaging.exc
    /\ outcome' = Op("vagrant package", vm, packaging.exc)
    /\ env' = IF packaging.exc = NoExc THEN env ELSE shell_env_leak(env)
    /\ UNCHANGED <<vm, uuid_cache, listing>>
    /\ UNCHANGED context_frame

ContextNext ==
    \/ \E cmd \in {"vagrant up", "vagrant reload"}, ok \in BOOLEAN : Up(cmd, ok)
    \/ \E cmd \in {"vagrant halt", "vagrant destroy"}, ok \in BOOLEAN : Down(cmd, ok)
    \/ \E ok \in BOOLEAN : CtxStatus(ok)
    \/ \E ok \in BOOLEAN : SshConfig(ok)
    \/ \E vfile \in VagrantfileArgs, include \in BOOLEAN,
          mk \in {"ok", "mkstemp fails", "write fails"} :
             PackageBegin(vfile, include, mk)
    \/ \E ok \in BOOLEAN : PackageRun(ok)
    \/ PackageFinally

ContextSpec == ContextInit /\ [][ContextNext]_vars

\* ------------------------------- a VagrantContext that defines several VMs
\* the instances the context's Vagrantfile defines
Instances == {"web", "db"}

\* the vm argument of an operation: an instance, or None
Qualifiers == Instances \cup {None}

\* VagrantBox.__getattr__: the call goes to the context with vm=box_name;
\* a direct call passes the qualifier it was given
passed_vm(via, q) == q

\* _up lines 100-101: `if vm: cmd += ' ' + vm`; vagrant acts on the VM
\* named on the command line, on every VM when none is named
up_targets(q) == IF q # None THEN {q} ELSE Instances

\* _down lines 115-119: vm is accepted and never put on the command line
down_targets(q) == Instances

\* the uuid up() caches: runinfo['active'].get(vm or 'default')
active_uuid(q) == IF q = None THEN None ELSE VmId \o "-" \o q

MultiInit ==
    /\ scratch = FALSE /\ connections = {}
    /\ subject = None /\ base = NoBase
    /\ pc = "idle" /\ exc = NoExc /\ build_dir = Unbound
    /\ vagrant = UnboundBox /\ original_settings = NoSettings
    /\ old_mode = Unbound /\ args = NoArgs /\ depth = 0 /\ steps = 0
    /\ base_calls = 0 /\ builds = 0 /\ outcome = NoOutcome /\ log = <<>>
    /\ invocations = 0 /\ was_installed = FALSE /\ snapshot = {}
    /\ entered = <<>> /\ history = <<>> /\ kwargs = <<>> /\ ip_cache = {}
    /\ script = [kwargs |-> <<>>, calls |-> 0]
    /\ installed = {}
    /\ env = EnvLocalhost
    /\ resolving = NoCall /\ packaging = NoCall /\ listing = NoCall
    /\ builders = <<>>
    /\ vm = [i \in Instances |-> "absent"]
    /\ uuid_cache = [q \in Qualifiers |-> None]

\* an operation on qualifier q, made on the context or through a handle
MultiOp(cmd, via, q, was, raised) ==
    [op |-> cmd, via |-> via, qualifier |-> q, was |-> was, raised |-> raised]

\* up / reload with vm=q; a failing command may have acted on some VMs
MultiUp(cmd, via, q, ok) ==
    /\ steps < MaxOps
    /\ steps' = steps + 1
    /\ LET targets == up_targets(passed_vm(via, q))
           raised == IF ok THEN NoExc ELSE "SystemExit: " \o cmd
       IN  /\ cmd = "vagrant reload" => \A i \in targets : vm[i] # "absent"
           /\ \E acted \in SUBSET targets :
                 /\ ok => acted = targets
                 /\ ~ok => acted # targets
                 /\ vm' = [i \in Instances |->
                             IF i \in acted THEN "running" ELSE vm[i]]
           /\ exc' = raised
           /\ outcome' = MultiOp(cmd, via, q, vm, raised)
           /\ env' = IF ok THEN env ELSE shell_env_leak(env)
           /\ uuid_cache' = IF ok /\ cmd = "vagrant up" /\ uuid_cache[q] = None
                            THEN [uuid_cache EXCEPT ![q] = active_uuid(q)]
                            ELSE uuid_cache
    /\ UNCHANGED <<packaging, listing>>
    /\ UNCHANGED context_frame

\* halt / destroy with vm=q, under warn_only
MultiDown(cmd, via, q, ok) ==
    /\ steps < MaxOps
    /\ steps' = steps + 1
    /\ LET targets == down_targets(passed_vm(via, q))
           raised == down_raises(~ok)
       IN  /\ (cmd = "vagrant destroy" /\ \A i \in targets : vm[i] = "absent") => ok
           /\ \E acted \in SUBSET targets :
                 /\ ok => acted = targets
                 /\ ~ok => acted # targets
                 /\ vm' = [i \in Instances |->
                             IF i \notin acted \/ vm[i] = "absent" THEN vm[i]
                             ELSE IF cmd = "vagrant destroy" THEN "absent"
                             ELSE "poweroff"]
           /\ exc' = raised
           /\ outcome' = MultiOp(cmd, via, q, vm, raised)
           /\ env' = IF raised = NoExc THEN env ELSE shell_env_leak(env)
    /\ UNCHANGED <<uuid_cache, packaging, listing>>
    /\ UNCHANGED context_frame

MultiNext ==
    \/ \E cmd \in {"vagrant up", "vagrant reload"}, via \in {"context", "handle"},
          q \in Qualifiers, ok \in BOOLEAN : MultiUp(cmd, via, q, ok)
    \/ \E cmd \in {"vagrant halt", "vagrant destroy"}, via \in {"context", "handle"},
          q \in Qualifiers, ok \in BOOLEAN : MultiDown(cmd, via, q, ok)

MultiSpec == MultiInit /\ [][MultiNext]_vars

\* --------------------------------- ip() called by the provisioning procedure
\* the iface argument of ip(): None for the first interface, or a name
Ifaces == {None, "eth0", "eth1"}

\* the word run('ifconfig -s') has first on its second line
FirstIface == "eth0"

\* the address `ifconfig` prints for an interface of VM `id`
inet_addr(id, iface) == "inet:" \o id \o ":" \o iface

\* self._ip.get((vm, iface))
ip_get(cache, q, iface) ==
    IF \E r \in cache : r.vm = q /\ r.iface = iface
    THEN (CHOOSE r \in cache : r.vm = q /\ r.iface = iface).addr
    ELSE None

\* one call of ip(): its arguments, whether the value came from the cache,
\* the value it returned, whether it returned
Lookup(iface, cached, value, ok) ==
    [cmd |-> "ip", arg |-> iface, at |-> "python", ok |-> ok,
     cached |-> cached, value |-> value]

IpInit ==
    /\ Init
    /\ installed = {}
    /\ env = EnvLocalhost
    /\ kwargs = <<>>

\* ip(vm=None, iface) on the build's box, called by the procedure: on a miss
\* connect (uuid, up, ssh-config, overlay), run ifconfig, store under the
\* interface that was queried, leave the scope; `fail` is the command that fails
ProcIp(iface, fail) ==
    /\ pc = "proc" /\ steps < MaxProcSteps
    /\ steps' = steps + 1
    /\ LET hit == ip_get(ip_cache, None, iface)
           at == ContextMachine(vagrant)
           inner == overlay(env, uuid_cache)
           key == inner["host_string"]
           queried == IF iface = None THEN FirstIface ELSE iface
           addr == inet_addr(uuid_cache, queried)
           raised == <<Lookup(iface, FALSE, None, FALSE),
                       Event("procedure", "raised", "python", FALSE)>>
           enter == <<Event("vagrant up", vagrant.directory, at, TRUE),
                      Event("vagrant ssh-config", vagrant.directory, at, TRUE),
                      Event("nested overlay enter", synthetic_host(uuid_cache),
                            "python", TRUE)>>
           first == IF iface = None
                    THEN <<Event("ifconfig -s", "", Machine(inner), TRUE)>>
                    ELSE <<>>
           leave == <<Event("nested overlay exit", key, "python", TRUE)>>
       IN  IF hit # None
           THEN /\ fail = "none"
                /\ log' = Append(log, Lookup(iface, TRUE, hit, TRUE))
                /\ UNCHANGED <<env, exc, pc, depth, connections, entered, ip_cache>>
           ELSE IF fail = "vagrant up"
           THEN /\ log' = log \o <<Event("vagrant up", vagrant.directory, at, FALSE)>>
                              \o raised
                /\ env' = shell_env_leak(env)
                /\ exc' = "SystemExit: vagrant up"
                /\ pc' = "exit" /\ depth' = 0
                /\ UNCHANGED <<connections, entered, ip_cache>>
           ELSE IF fail = "ifconfig"
           THEN /\ log' = log \o enter \o first
                              \o <<Event("ifconfig", queried, Machine(inner), FALSE)>>
                              \o leave \o raised
                /\ connections' = (connections \cup {key}) \ {key}
                /\ env' = env
                /\ entered' = Append(entered, Entry(vagrant.directory, VmId, uuid_cache))
                /\ exc' = "SystemExit: ifconfig"
                /\ pc' = "exit" /\ depth' = 0
                /\ UNCHANGED ip_cache
           ELSE /\ log' = log \o enter \o first
                              \o <<Event("ifconfig", queried, Machine(inner), TRUE)>>
                              \o leave
                              \o <<Lookup(iface, FALSE, addr, TRUE)>>
                /\ connections' = (connections \cup {key}) \ {key}
                /\ env' = env
                /\ entered' = Append(entered, Entry(vagrant.directory, VmId, uuid_cache))
                /\ ip_cache' = {r \in ip_cache : ~(r.vm = None /\ r.iface = queried)}
                                  \cup {[vm |-> None, iface |-> queried, addr |-> addr]}
                /\ UNCHANGED <<exc, pc, depth>>
    /\ UNCHANGED <<installed, scratch, vm, uuid_cache, subject, kwargs, base,
                   build_dir, vagrant, original_settings, old_mode, args,
                   base_calls, builds, outcome, was_installed, snapshot,
                   invocations, resolving, packaging, listing, builders, script,
                   history>>

IpNext ==
    \/ Next
    \/ \E iface \in Ifaces, fail \in {"none", "vagrant up", "ifconfig"} :
          ProcIp(iface, fail)

IpSpec == IpInit /\ [][IpNext]_vars

\* -------------------------------------------------------------- properties
Done == pc = "done"
Happened(cmd) == \E i \in DOMAIN log : log[i].cmd = cmd
Succeeded(cmd) == \E i \in DOMAIN log : log[i].cmd = cmd /\ log[i].ok
Failed(cmd) == \E i \in DOMAIN log : log[i].cmd = cmd /\ ~log[i].ok
Count(cmd) == Cardinality({i \in DOMAIN log : log[i].cmd = cmd})
ContextCreated == vagrant \notin {UnboundBox, NoneBox}
ProcedureRaised == \E i \in DOMAIN log : log[i].cmd = "procedure" /\ log[i].arg = "raised"
ProcedureReturned == \E i \in DOMAIN log : log[i].cmd = "procedure" /\ log[i].arg = "returned"

\* C1: when a top-level build that created a Build Context has returned to
\* its caller, destroy was issued on the disposable VM, and if destroy failed
\* the forced unregister-and-delete was issued.
C1_DisposableVmRemoved ==
    (Done /\ ContextCreated) =>
        /\ Happened("vagrant destroy --force")
        /\ Failed("vagrant destroy --force") => Happened("VBoxManage unregistervm --delete")

\* C2: when a top-level build that staged its base image (the reference was
\* not installed, the install succeeded) has returned to its caller, on any
\* exit path, the removal of the staged image was issued exactly once.
C2_StagedImageRemovedOnce ==
    (Done /\ ~was_installed /\ Succeeded("vagrant box add")) =>
        Count("vagrant box remove") = 1

\* C3: when a top-level build that created a scratch directory has returned
\* to its caller, the directory is gone (unless rm -rf, run on the machine
\* that holds it, itself failed).
C3_ScratchDirectoryRemoved ==
    (Done /\ build_dir # Unbound) =>
        \/ ~scratch
        \/ \E i \in DOMAIN log :
              log[i].cmd = "rm -rf" /\ log[i].at = Home /\ ~log[i].ok

\* C4: a reference that was in the installed-image set when its Base was
\* constructed has originally_installed true, no `box add` and no `box remove`
\* is ever issued for it, and it stays installed: after any ensure and clean
\* calls and after a whole build with it as base.
C4_InstalledReferenceKept ==
    (base # NoBase /\ was_installed) =>
        /\ base.originally_installed
        /\ base.name = Join(base.box_string)
        /\ Join(base.box_string) \in installed
        /\ ~Happened("vagrant box add")
        /\ ~Happened("vagrant box remove")

\* a build on an installed base went through ensure and, after rm -rf, clean
C4_Witness ==
    /\ Done /\ was_installed
    /\ Succeeded("rm -rf")
    /\ outcome.finished

\* C5: when the provisioning procedure raised, then by the time the build has
\* returned to its caller packaging was never resolved nor issued, destroy
\* and the removal of a build-staged base were issued, and the caller
\* observes the procedure's own exception.
C5_ProvisioningFailurePath ==
    (Done /\ ProcedureRaised) =>
        /\ ~Happened("resolve_package_vagrantfile")
        /\ ~Happened("box.package")
        /\ Happened("vagrant destroy --force")
        /\ Succeeded("vagrant box add") => Happened("vagrant box remove")
        /\ outcome.raised = "ProvisioningError"

\* C6: once the Connection Overlay has been exited, on any path, env equals
\* the snapshot taken at enter.
C6_OverlayRestoresSnapshot ==
    (Happened("overlay exit") /\ pc \in {"package", "destroy"}) =>
        env = original_settings

\* C7: an invocation of the wrapper made while the current-build marker is
\* set calls the procedure directly: it is one more nested call in the same
\* provisioning phase, with the registry, the scratch directory, the Build
\* Context, the overlay, the session cache and the command log untouched;
\* and when a nested call returns normally the outer VM is still running and
\* provisioning goes on.
C7_NestedInvocationRunsDirectly ==
    [][/\ (invocations' = invocations + 1 /\ subject # None) =>
            /\ depth' = depth + 1
            /\ pc' = pc
            /\ vm' = "running"
            /\ UNCHANGED <<installed, scratch, base, build_dir, vagrant, env,
                           original_settings, connections, log, subject,
                           uuid_cache, args>>
       /\ (pc = "proc" /\ depth' = depth - 1 /\ exc' = NoExc) =>
            /\ vm' = "running"
            /\ pc' = "proc"
            /\ log' = log]_vars

\* a nested invocation has returned into the provisioning procedure
C7_Witness ==
    /\ pc = "proc" /\ invocations = 2 /\ depth = 0
    /\ subject # None /\ vm = "running"

\* the names find_unique_name is to probe, in order, and the basenames of
\* the reference strings, written out
ExpectedSuffixes == <<"", "-001", "-002", "-003", "-004">>
ExpectedBasename(string) ==
    CASE string = RefName  -> "precise64"
      [] string = RefFile  -> "precise64"
      [] string = RefUrl   -> "precise64"
      [] string = RefQuery -> "lucid32.tar"

\* C8: a reference that was not installed is staged under the first name of
\* basename, basename-001, basename-002, ... that is not in the installed set
\* at that time, where basename is the file or URL path's last component
\* without its extension; with {precise64, precise64-001} installed that is
\* precise64-002.
C8_FirstUnusedName ==
    (base # NoBase /\ ~was_installed /\ Happened("vagrant box add")) =>
        LET expected == ExpectedBasename(base.box_string)
        IN  /\ base.basename = expected
            /\ \A i \in DOMAIN log :
                  log[i].cmd = "vagrant box add" => log[i].arg = base.name
            /\ base.name \notin snapshot
            /\ \E k \in DOMAIN ExpectedSuffixes :
                  /\ base.name = expected \o ExpectedSuffixes[k]
                  /\ \A j \in 1..(k - 1) : expected \o ExpectedSuffixes[j] \in snapshot
            /\ (expected = "precise64" /\ {"precise64", "precise64-001"} \subseteq snapshot)
                  => base.name = "precise64-002"

\* the scenario of the specification: precise64-002 was installed
C8_Witness ==
    /\ base # NoBase /\ ~was_installed
    /\ base.name = "precise64-002"
    /\ base.installed
    /\ "precise64-002" \in installed

\* C9: a build in which the procedure returned, the overlay was exited and
\* no command failed returns to its caller with the artifact installed under
\* the install name.
C9_ArtifactInstalled ==
    (/\ Done
     /\ ProcedureReturned
     /\ Succeeded("overlay exit")
     /\ \A i \in DOMAIN log : log[i].at # "python" => log[i].ok) =>
        /\ outcome.raised = NoExc
        /\ args.install_as.str \in installed

\* C10: when destroy of the disposable VM has failed, the forced
\* unregister-and-delete was attempted exactly once.
C10_FallbackAfterFailedDestroy ==
    Failed("vagrant destroy --force") =>
        Count("VBoxManage unregistervm --delete") = 1

\* C11: when `vagrant box add` failed during the staging of a build, the
\* caller observes that failure; the install was issued once, no scratch
\* directory and no VM was created, no image was removed, and the reference
\* is still not staged.
C11_StagingFailureObserved ==
    (Done /\ invocations > 0 /\ Failed("vagrant box add")) =>
        /\ outcome.raised = "SystemExit: vagrant box add"
        /\ Count("vagrant box add") = 1
        /\ ~Happened("mktemp -d") /\ ~scratch
        /\ ~Happened("vagrant up") /\ vm = "absent"
        /\ ~Happened("vagrant box remove")
        /\ ~base.installed

\* every b in the log comes after every a, and after at least one a
Ordered(a, b) ==
    \A j \in DOMAIN log : log[j].cmd = b =>
        /\ \E i \in 1..(j - 1) : log[i].cmd = a
        /\ \A i \in DOMAIN log : log[i].cmd = a => i < j
\* ... and after an a that succeeded
OrderedOk(a, b) ==
    /\ Ordered(a, b)
    /\ \A j \in DOMAIN log : log[j].cmd = b =>
          \E i \in 1..(j - 1) : log[i].cmd = a /\ log[i].ok

\* C12: in a top-level build the steps come in this order: base image
\* staged, scratch directory created and Build Context configured, VM
\* brought up, overlay entered, procedure invoked, overlay exited, packaging
\* content resolved, packaging called. The VM is running while the procedure
\* runs, and the overlay has been exited and env restored before packaging
\* is resolved.
C12_StepsInOrder ==
    invocations > 0 =>
        /\ \A i, j \in DOMAIN log :
              (log[i].cmd = "vagrant box add" /\ log[j].cmd = "mktemp -d") => i < j
        /\ Happened("mktemp -d") => base.installed
        /\ OrderedOk("mktemp -d", "vagrant up")
        /\ Happened("vagrant up") => (ContextCreated /\ vagrant.basebox = base.name)
        /\ OrderedOk("vagrant up", "vagrant ssh-config")
        /\ OrderedOk("vagrant ssh-config", "overlay enter")
        /\ OrderedOk("overlay enter", "procedure")
        /\ Ordered("procedure", "overlay exit")
        /\ OrderedOk("overlay exit", "resolve_package_vagrantfile")
        /\ OrderedOk("resolve_package_vagrantfile", "box.package")
        /\ pc = "proc" =>
              (vm = "running" /\ Succeeded("overlay enter") /\ ~Happened("procedure"))
        /\ Happened("resolve_package_vagrantfile") => ProcedureReturned
        /\ pc = "package" => (env = original_settings /\ Succeeded("overlay exit"))

\* a build went through every step up to the resolution of the packaging
\* content
C12_Witness ==
    /\ Happened("vagrant box add")
    /\ Happened("resolve_package_vagrantfile")
    /\ pc = "destroy"

\* C13: teardown of a build is innermost-first: when rm -rf of the scratch
\* directory is issued, destroy of the Build Context's VM (and the forced
\* unregister, if any) was issued before it; when the staged base image is
\* removed, the scratch directory's removal was issued before it.
C13_TeardownInnermostFirst ==
    invocations > 0 =>
        /\ ContextCreated => Ordered("vagrant destroy --force", "rm -rf")
        /\ \A i, j \in DOMAIN log :
              (log[i].cmd \in {"vagrant destroy --force", "VBoxManage unregistervm --delete"}
                 /\ log[j].cmd \in {"rm -rf", "vagrant box remove"}) => i < j
        /\ OrderedOk("rm -rf", "vagrant box remove")
        /\ \A i, j \in DOMAIN log :
              (log[i].cmd \in {"vagrant box add", "mktemp -d", "vagrant up"}
                 /\ log[j].cmd \in {"vagrant destroy --force", "rm -rf", "vagrant box remove"})
              => i < j

\* a build tore down its VM, its scratch directory and its staged base
C13_Witness ==
    /\ Done
    /\ Succeeded("vagrant destroy --force")
    /\ Succeeded("rm -rf")
    /\ Succeeded("vagrant box remove")

\* C14: an overlay that is entered and exited at once, with no command run
\* and no session opened inside it, exits without error and leaves env as
\* it was before the enter.
C14_EmptyOverlayScopeRestores ==
    (/\ pc \in {"package", "destroy"}
     /\ Happened("overlay exit")
     /\ ProcedureReturned
     /\ steps = 0) =>
        /\ Succeeded("overlay exit")
        /\ exc = NoExc
        /\ env = original_settings

\* C15: once an overlay scope has been exited, fabric's connection cache
\* holds no session under the scope's synthetic host.
C15_NoSessionLeftForSyntheticHost ==
    \A i \in DOMAIN log : log[i].cmd = "overlay exit" =>
        \A j \in 1..(i - 1) : log[j].cmd = "overlay enter" =>
            \A h \in connections : h # "vagrant@" \o log[j].arg \o ":2222"

\* C16: every lookup of the instance identifier for one Build Context
\* returns the same value, and that value is the identifier of the context's
\* own VM.
C16_IdentifierIsTheContextsOwn ==
    \A i \in DOMAIN entered :
        /\ entered[i].uuid = entered[i].vm
        /\ \A j \in DOMAIN entered :
              entered[j].context = entered[i].context => entered[j].uuid = entered[i].uuid

\* C17: the synthetic hosts computed at the enter of the overlays of two
\* different VMs are different, and each is derived from the identifier of
\* the VM entered.
C17_SyntheticHostsDistinct ==
    \A i, j \in DOMAIN entered :
        /\ entered[i].host = "vagrant-temporary-" \o entered[i].vm
        /\ entered[i].vm # entered[j].vm => entered[i].host # entered[j].host

\* a direct call of resolve_package_vagrantfile has returned or raised
Resolved == resolving.called /\ resolving.result # Pending
IsName(v) == DOMAIN v = {"str"} /\ v.str \in {"inherit", "none", "current"}
IsLiteral(v) == DOMAIN v = {"str"} /\ ~IsName(v) /\ v.str = "Vagrant::Config.run do |config| end"
IsFilePath(v) ==
    DOMAIN v = {"str"} /\ ~IsName(v) /\ ~IsLiteral(v) /\ v.str \in resolving.files

\* C18: resolution returns nothing for strategy None, the text of the
\* context's Vagrantfile for UseCurrentConfig, the base box's bundled
\* Vagrantfile for InheritFromBase when the base publishes one and nothing,
\* without error, when it does not, the text itself for a literal body, and
\* the file's contents for a path; and it changes no state.
C18_ResolveByStrategy ==
    Resolved =>
        LET v == resolving.vfile
            r == resolving.result
        IN  /\ v = PyInt(0) => r = [raises |-> NoExc, value |-> PyNone]
            /\ v = PyInt(1) => (r.raises = NoExc /\ DOMAIN r.value = {"str"})
            /\ v = PyInt(2) =>
                  /\ r.raises = NoExc
                  /\ resolving.publishes => DOMAIN r.value = {"str"}
                  /\ ~resolving.publishes => r.value = PyNone
            /\ IsLiteral(v) => r = [raises |-> NoExc, value |-> v]
            /\ IsFilePath(v) => (r.raises = NoExc /\ DOMAIN r.value = {"str"})
            /\ log = <<>> /\ installed = {} /\ env = EnvLocalhost

\* C19: a strategy name is classified as its strategy even when a file of
\* that name exists ("inherit" as code 2, "none" as 0, "current" as 1); a
\* string with the marker is a literal even when it names an existing file;
\* an existing path without the marker is read as a file.
C19_ClassificationOrder ==
    Resolved =>
        LET v == resolving.vfile
            r == resolving.result
            code == CASE v.str = "inherit" -> 2
                      [] v.str = "none"    -> 0
                      [] v.str = "current" -> 1
        IN  /\ IsName(v) =>
                  r = resolve_package_vagrantfile(PyInt(code), resolving.kind)
            /\ (IsLiteral(v) /\ v.str \in resolving.files) => r.value = v
            /\ IsFilePath(v) => r.raises \notin {"TypeError", "ValueError"}

\* C20: an integer that is no strategy code, and a string that is neither a
\* strategy name, nor a literal body, nor an existing file, make resolution
\* fail with the invalid-strategy error (ValueError) and no other.
C20_InvalidStrategyRejected ==
    Resolved =>
        LET v == resolving.vfile
            r == resolving.result
        IN  /\ (DOMAIN v = {"int"} /\ v.int \notin {0, 1, 2}) => r.raises = "ValueError"
            /\ (DOMAIN v = {"str"} /\ ~IsName(v) /\ ~IsLiteral(v) /\ ~IsFilePath(v))
                  => r.raises = "ValueError"

\* C25: once a top-level build has finished, returning or raising, the
\* current-build marker (__subject__) is clear, and every top-level
\* invocation is a full build, never a direct run of the procedure.
C25_MarkerClearAfterBuild ==
    /\ pc = "done" => ~in_nested_build(subject)
    /\ \A i \in DOMAIN history : ~history[i].direct

\* C26: every building invocation uses the base and the install name given
\* when the procedure was wrapped, the second as the first, and hands none of
\* the build parameters on to the procedure.
C26_WrapTimeParametersPersist ==
    \A i \in DOMAIN history :
        ~history[i].direct =>
            /\ "base" \in DOMAIN script.kwargs =>
                  history[i].base = script.kwargs.base
            /\ "install_as" \in DOMAIN script.kwargs =>
                  history[i].install_as = script.kwargs.install_as
            /\ DOMAIN history[i].passed \cap BuildArgs = {}

\* C27: the build packages with the strategy chosen at wrap time, strategy
\* None (code 0) included: the value the wrapper hands to the resolution is
\* the chosen one, not the default.
C27_ChosenStrategyUsed ==
    (history # <<>> /\ "package_vagrantfile" \in DOMAIN script.kwargs) =>
        /\ history[1].package_vfile = script.kwargs.package_vagrantfile
        /\ args.package_vfile = script.kwargs.package_vagrantfile

\* a build that has staged an image of its own and is still running
Staged(p) ==
    /\ builders[p].pc \in {"build", "clean"}
    /\ builders[p].base.installed /\ ~builders[p].base.originally_installed

\* C21: two builds that have each staged an image of their own, each having
\* issued `box add` with the registry as its probe saw it, hold their images
\* under distinct names.
C21_DistinctNamesOnConsistentSnapshot ==
    \A p, q \in Procs :
        (p # q /\ Staged(p) /\ Staged(q)
              /\ builders[p].consistent /\ builders[q].consistent)
           => builders[p].base.name # builders[q].base.name

C21_Witness ==
    /\ Staged("A") /\ Staged("B")
    /\ builders["A"].consistent /\ builders["B"].consistent
    /\ builders["A"].base.basename = builders["B"].base.basename
    /\ builders["A"].base.name = "precise64"
    /\ builders["B"].base.name = "precise64-001"

\* C29: while a build is running, the image it uses as its base (one it
\* staged itself or one it found installed) is in the registry: the other
\* build's unstage has not removed it.
C29_UnstageSparesOtherBuild ==
    \A q \in Procs :
        (builders[q].pc \in {"build", "clean"} /\ builders[q].base.installed)
           => builders[q].base.name \in installed

\* the words of a line, and the rows of a listing with two blank lines: the
\* positions strictly between the first and the second blank line
Words(line) == SelectSeq(line, LAMBDA piece : piece \notin WS)
Blanks(lines) == {i \in 1..Len(lines) : lines[i] = <<>>}
FirstBlank(lines) == CHOOSE i \in Blanks(lines) : \A j \in Blanks(lines) : i <= j
SecondBlank(lines) ==
    CHOOSE i \in Blanks(lines) \ {FirstBlank(lines)} :
        \A j \in Blanks(lines) \ {FirstBlank(lines)} : i <= j
RowsOf(lines) == {i \in 1..Len(lines) : FirstBlank(lines) < i /\ i < SecondBlank(lines)}

\* C23: for a listing with at least two blank lines, status() returns the
\* mapping with one key per line strictly between the first two blank lines,
\* the line's first word, whose value is the line's other words joined by
\* single spaces; no other line contributes; with a qualifier only that
\* instance's state is returned (None when it is not listed).
C23_StatusMapping ==
    (listing.called /\ listing.result # Pending
        /\ listing.result.raises # "SystemExit: vagrant status"
        /\ Cardinality(Blanks(listing.lines)) >= 2) =>
       LET lines == listing.lines
           r     == listing.result
           keys  == {Words(lines[i])[1] : i \in RowsOf(lines)}
           state(k) == LET i == CHOOSE i \in RowsOf(lines) :
                                  /\ Words(lines[i])[1] = k
                                  /\ \A j \in RowsOf(lines) :
                                        Words(lines[j])[1] = k => j <= i
                       IN  join_space(Tail(Words(lines[i])))
       IN  /\ r.raises = NoExc
           /\ listing.qualifier = None =>
                 /\ DOMAIN r.value = {"dict"}
                 /\ DOMAIN r.value.dict = keys
                 /\ \A k \in keys : r.value.dict[k] = state(k)
           /\ listing.qualifier # None =>
                 r.value = IF listing.qualifier \in keys
                           THEN PyStr(state(listing.qualifier)) ELSE PyNone

C23_Witness ==
    /\ listing.called /\ listing.result # Pending
    /\ listing.lines = <<HeaderLine, <<>>, <<"box1", "      ", "running">>,
                          <<"box2", "      ", "poweroff">>, <<>>, FooterLine>>
    /\ listing.qualifier = None
    /\ listing.result.raises = NoExc
    /\ DOMAIN listing.result.value.dict = {"box1", "box2"}
    /\ listing.result.value.dict["box1"] = "running"
    /\ listing.result.value.dict["box2"] = "poweroff"

\* C22: when package has returned or raised, no temporary file it wrote is
\* left, whether the packaging command succeeded or failed; and a call whose
\* vagrantfile is None, a file name or True never creates one.
C22_TempFileRemoved ==
    packaging.called =>
        /\ packaging.pc \in {"returned", "raised"} => packaging.files = {}
        /\ packaging.vfile \in {PyNone, [bool |-> TRUE], PyStr(VagrantfilePath)} =>
              (~packaging.made /\ packaging.tmpfile = None)

C22_Witness ==
    /\ packaging.called /\ packaging.pc = "raised"
    /\ packaging.vfile = PyStr(LiteralBody)
    /\ packaging.made /\ packaging.tmpfile = TmpFile
    /\ packaging.exc = "SystemExit: vagrant package"
    /\ packaging.files = {}

C28_EnvAsBefore ==
    AtRest =>
        /\ env["shell"] = EnvLocalhost["shell"]
        /\ env["cwd"] = EnvLocalhost["cwd"]
        /\ env["host_string"] = EnvLocalhost["host_string"]
        /\ env["mode_local"] = EnvLocalhost["mode_local"]

\* C30: ssh-config is asked only after `vagrant up` has brought the VM up;
\* when bring-up or the
\* ssh-config lookup fails while the overlay is entered, env is what it was
\* before (the caller's env in local mode), no snapshot is held and no
\* session is cached.
C30_FailedEnterLeavesNoTrace ==
    /\ Happened("vagrant ssh-config") => Succeeded("vagrant up")
    /\ (pc = "destroy"
          /\ exc \in {"SystemExit: vagrant up", "SystemExit: vagrant ssh-config"}) =>
            /\ \E e \in {EnvNoHost, EnvLocalhost} :
                   env = [e EXCEPT !["mode_local"] = "True"]
            /\ original_settings = NoSettings
            /\ connections = {}

\* the operations of a Build Context other than destroy
ContextOps ==
    {"vagrant up", "vagrant reload", "vagrant halt", "vagrant ssh-config",
     "vagrant status", "box.package", "overlay enter"}

\* C31: in the command log of a build nothing but the forced unregister,
\* the removal of the scratch directory and the removal of the staged image
\* comes after `vagrant destroy`: no bring-up, reload, halt, package, status,
\* ssh-config lookup or overlay enter.
C31_NothingAfterDestroy ==
    \A i, j \in DOMAIN log :
        (i < j /\ log[i].cmd = "vagrant destroy --force") =>
            /\ log[j].cmd \notin ContextOps
            /\ log[j].cmd \in {"VBoxManage unregistervm --delete", "rm -rf",
                                "vagrant box remove"}

C31_Witness ==
    /\ pc = "done"
    /\ Succeeded("vagrant up") /\ Succeeded("overlay enter")
    /\ \E i, j, k \in DOMAIN log :
          /\ i < j /\ j < k
          /\ log[i].cmd = "vagrant destroy --force"
          /\ log[j].cmd = "rm -rf"
          /\ log[k].cmd = "vagrant box remove"

\* C32: after halt or destroy with an instance qualifier, made on the context
\* or through a per-instance handle, every other instance the context
\* defines is in the state it had before the call.
C32_OtherInstancesKeepState ==
    (/\ "qualifier" \in DOMAIN outcome
     /\ outcome.op \in {"vagrant halt", "vagrant destroy"}
     /\ outcome.qualifier # None)
        => \A i \in Instances \ {outcome.qualifier} : vm[i] = outcome.was[i]

\* C33: when the address lookup entered and left an overlay scope inside the
\* build's overlay scope and the procedure returned with env.host_string as
\* the overlay set it, the exit of the outer scope succeeds, raises nothing
\* and leaves env as it was before the outer enter.
C33_OuterScopeExitsCleanly ==
    (/\ Succeeded("nested overlay exit")
     /\ ProcedureReturned
     /\ \E i \in DOMAIN log : /\ log[i].cmd = "overlay exit"
                                /\ log[i].arg = synthetic_host_string(uuid_cache))
        => /\ Succeeded("overlay exit")
           /\ pc \in {"package", "destroy"} => (exc = NoExc /\ env = original_settings)

\* C34: a lookup that follows a returned lookup with the same interface
\* argument (the default, None, included) is answered from the cache with the
\* same address, and every address returned is that of the build's own VM.
C34_DiscoveredOnce ==
    /\ \A i, j \in DOMAIN log :
          (/\ i < j /\ log[i].cmd = "ip" /\ log[j].cmd = "ip"
           /\ log[i].ok /\ log[j].ok /\ log[i].arg = log[j].arg)
              => log[j].cached /\ log[j].value = log[i].value
    /\ \A i \in DOMAIN log :
          (log[i].cmd = "ip" /\ log[i].ok) =>
              \E iface \in Ifaces \ {None} : log[i].value = inet_addr(VmId, iface)
====
